---- MODULE Spec2Model ----
(***************************************************************************)
(* Sandbox creation workflow of the coding-agent template                  *)
(* (src/lib/sandbox/creation.ts) over the Docker sandbox                   *)
(* (src/lib/sandbox/docker-sandbox.ts).                                    *)
(*                                                                         *)
(* One run of createSandbox(config, logger) is modelled statement by       *)
(* statement: pc = "Lnnn" means that line nnn of creation.ts is the next   *)
(* statement to execute.  Every awaited call is one step; the outcome of   *)
(* each sandbox command, logger call and callback is chosen by the         *)
(* environment.                                                            *)
(***************************************************************************)
EXTENDS Naturals, Integers, Sequences, FiniteSets, TLC

VARIABLES
    config,                   \* SandboxConfig handed to createSandbox
    pc,                       \* next statement of creation.ts
    thrown,                   \* the exception in flight (or NoError)
    stage,                    \* CancellationStage argument of checkCancellation
    callee,                   \* which checkout helper called runAndLogCommand
    cmdResult,                \* awaited CommandResult kept in a local variable
    pmLocal,                  \* local packageManager of installNodeDependencies
    packageJson,              \* local packageJson of maybeStartDevServer
    branchName,               \* local branchName of prepareBranch
    sandbox,                  \* this.sandbox
    packageJsonDetected,      \* this.packageJsonDetected
    requirementsTxtDetected,  \* this.requirementsTxtDetected
    packageManager,           \* this.packageManager
    devPort,                  \* this.devPort
    domain,                   \* this.domain
    registry,                 \* sandbox registry: task id -> sandbox id
    viteConfig,               \* vite.config.js in the sandbox: "original" | "patched"
    trace,                    \* history: events since run() last reached a checkpoint
    polls,                    \* history: every poll of onCancellationCheck
    createCalls,              \* history: number of Sandbox.create calls
    depFailed,                \* history: a dependency-installation command failed
    depSucceeded,             \* history: a dependency-installation command succeeded
    logFailed,                \* history: some TaskLogger call rejected
    settled,                  \* "pending" | "resolved" | "rejected"
    result,                   \* value createSandbox settled with
    options,                  \* RunCommandOptions of a runCommand with cwd
    shellCommand,             \* the string handed to sh -c
    argv,                     \* what sh made of it: the words of each command
    qpc,                      \* position in buildExecArgs
    instances,                \* DockerSandbox.instances: sandboxId -> object
    imagePromise,             \* DockerSandbox.imagePromise
    imageStarts,              \* how often the body of the image promise began
    handles,                  \* the DockerSandbox objects constructed so far
    containers,               \* names of the containers the runtime has
    calls,                    \* the create, get or stop each caller is in
    started,                  \* calls begun so far
    child,                    \* the docker exec child of a detached runCommand
    stopDone,                 \* sandbox ids for which a stop() has completed
    labelRun                  \* a create and a later get of one sandbox with
                              \* its ports, volumes and label (<<>>: none)

fields == <<sandbox, packageJsonDetected, requirementsTxtDetected,
            packageManager, devPort, domain>>
locals == <<stage, callee, cmdResult, pmLocal, packageJson, branchName>>
quoting == <<options, shellCommand, argv, qpc>>
docker == <<instances, imagePromise, imageStarts, handles, containers, calls,
            started, child, stopDone>>
library == <<quoting, docker, labelRun>>
outer == <<config, registry, viteConfig, settled, result, library>>
history == <<trace, polls, createCalls, depFailed, depSucceeded>>
vars == <<config, pc, thrown, stage, callee, cmdResult, pmLocal, packageJson,
          branchName, sandbox, packageJsonDetected, requirementsTxtDetected,
          packageManager, devPort, domain, registry, viteConfig, trace,
          polls, createCalls, depFailed, depSucceeded, logFailed, settled,
          result, options, shellCommand, argv, qpc, instances, imagePromise,
          imageStarts, handles, containers, calls, started, child, stopDone,
          labelRun>>

----------------------------------------------------------------------------
\* Values

Undefined == "undefined"
Null == "null"
TaskId == "task-1"
SandboxId == "sandbox-1"

\* Longest command output, in characters, the environment produces.
MaxOutLen == 2

Chars == {" ", "r"}

RECURSIVE SeqsUpTo(_)
SeqsUpTo(n) ==
    IF n = 0 THEN {<<>>}
    ELSE LET shorter == SeqsUpTo(n - 1)
         IN shorter \cup {Append(s, c) : s \in {t \in shorter : Len(t) = n - 1}, c \in Chars}

\* String.prototype.trim on a character sequence.
RECURSIVE TrimLeft(_)
TrimLeft(s) == IF s # <<>> /\ Head(s) = " " THEN TrimLeft(Tail(s)) ELSE s

RECURSIVE TrimRight(_)
TrimRight(s) ==
    IF s # <<>> /\ s[Len(s)] = " " THEN TrimRight(SubSeq(s, 1, Len(s) - 1)) ELSE s

Trim(s) == TrimRight(TrimLeft(s))

\* Outputs a command can produce: empty, blank, or carrying text.
Outputs == SeqsUpTo(MaxOutLen)

\* CommandResult of runCommandInSandbox / runInProject.
CommandResult == [success : BOOLEAN, output : Outputs, error : {"", "stderr"}]

\* Results of commands whose output the workflow never reads.
PlainResult == [success : BOOLEAN, output : {<<>>}, error : {""}]

NoPackageJson == [parsed |-> FALSE, dev |-> FALSE, vite |-> FALSE, next16 |-> FALSE]

NoError == [name |-> "none", message |-> "", response |-> FALSE]
Err(m) == [name |-> "Error", message |-> m, response |-> FALSE]
NonError == [name |-> "NonError", message |-> "", response |-> FALSE]

CANCELLATION_MESSAGES ==
    [beforeSandboxCreation |-> "Task was cancelled before sandbox creation",
     afterSandboxCreation |-> "Task was cancelled after sandbox creation",
     afterDependencyInstallation |-> "Task was cancelled after dependency installation",
     beforeGitConfiguration |-> "Task was cancelled before Git configuration"]

SandboxCancelledError(s) ==
    [name |-> "SandboxCancelledError", message |-> CANCELLATION_MESSAGES[s],
     response |-> FALSE]

\* What a rejected TaskLogger call can reject with.
LoggerRejections == {Err("log write failed")}

\* What a throwing onProgress or onCancellationCheck callback can throw.
CallbackRejections == {Err(""), NonError}

\* What a failed Sandbox.create can reject with.
CreateFailures ==
    {Err("Failed to create Docker sandbox: docker run failed"),
     Err("Failed to create Docker sandbox: timeout"),
     [name |-> "TimeoutError", message |-> "", response |-> FALSE],
     [name |-> "Error", message |-> "Request failed", response |-> TRUE],
     NonError}

Configs ==
    [taskId : {TaskId},
     onCancellationCheck : BOOLEAN,
     onProgress : BOOLEAN,
     installDependencies : {"true", "false", Undefined},
     preDeterminedBranchName : {Undefined, "feature/x"},
     env : {"valid", "invalid", "invalidNoMessage"}]

----------------------------------------------------------------------------
\* History

\* An observable step: a sandbox command ("cmd"), a Sandbox.create call, a
\* registerSandbox call, a detached launch, a poll of onCancellationCheck, or
\* what a command printed ("output": ok says it is more than whitespace).
\* arg is the branch a checkout names.
Event(e, w, o) == [ev |-> e, what |-> w, arg |-> "", ok |-> o]

\* The dependency-installation commands of installNodeDependencies,
\* ensureGlobalTool, installPythonDependencies and ensurePipAvailable.
DepCommands ==
    {"npm install -g pnpm", "npm install -g yarn",
     "pnpm install", "yarn install", "npm install",
     "python3 -m pip --version", "python3 -m pip install --upgrade pip",
     "curl get-pip.py && python3 get-pip.py", "apt-get install -y python3-pip",
     "python3 -m pip install -r requirements.txt"}

RecordAll(events) ==
    /\ trace' = trace \o events
    /\ depFailed' = (depFailed \/ \E i \in DOMAIN events :
                        events[i].what \in DepCommands /\ ~events[i].ok)
    /\ depSucceeded' = (depSucceeded \/ \E i \in DOMAIN events :
                           events[i].what \in DepCommands /\ events[i].ok)
    /\ UNCHANGED <<polls, createCalls>>

Record(e, w, o) == RecordAll(<<Event(e, w, o)>>)

----------------------------------------------------------------------------
\* escapeArg and appendCwdCommand of docker-sandbox.ts, and the sh -c that
\* executes what they build.  Strings are sequences of characters; "git",
\* "sudo", "cd" and the directory stand for runs of ordinary characters.

\* Longest argument, in characters.
MaxArgLen == 2

QuoteChars == {"'", " ", "&", "$", "a"}

ArgStrings == UNION {[1..n -> QuoteChars] : n \in 0..MaxArgLen}

\* Arguments that stand next to the one under study in a request.
Neighbours == {<<>>, <<"a">>, <<"'">>}

\* Requests of no argument, of one argument, and of one argument with a
\* neighbour on either side.
ArgLists ==
    {<<>>} \cup {<<a>> : a \in ArgStrings}
           \cup {<<a, b>> : a \in ArgStrings, b \in Neighbours}
           \cup {<<b, a>> : a \in ArgStrings, b \in Neighbours}

\* SINGLE_QUOTE_ESCAPE = String.raw`'\''`
SINGLE_QUOTE_ESCAPE == <<"'", "\\", "'", "'">>

\* s.split(`'`).join(SINGLE_QUOTE_ESCAPE)
RECURSIVE SplitJoin(_)
SplitJoin(s) ==
    IF s = <<>> THEN <<>>
    ELSE (IF Head(s) = "'" THEN SINGLE_QUOTE_ESCAPE ELSE <<Head(s)>>) \o SplitJoin(Tail(s))

\* escapeArg with the argument only wrapped in quotes: the variant C20 must
\* tell apart.
escapeArgWrapOnly(arg) == IF arg = <<>> THEN <<>> ELSE <<"'">> \o arg \o <<"'">>

escapeArg(arg) == IF arg = <<>> THEN <<>> ELSE <<"'">> \o SplitJoin(arg) \o <<"'">>

\* parts.join(' ')
RECURSIVE JoinSpace(_)
JoinSpace(parts) ==
    IF parts = <<>> THEN <<>>
    ELSE IF Len(parts) = 1 THEN parts[1]
    ELSE parts[1] \o <<" ">> \o JoinSpace(Tail(parts))

PROJECT_DIR == "/workspace/project"

\* The escapeArg local to runAndLogCommand (creation.ts), which has no test
\* for the empty string.
escapeArgLocal(arg) == <<"'">> \o SplitJoin(arg) \o <<"'">>

\* The shell command for the command git: of appendCwdCommand, or the
\* cdCommand that runAndLogCommand hands to sh -c.
ShellCommandOf(o) ==
    LET joinedArgs == JoinSpace([i \in DOMAIN o.args |->
                                   IF o.caller = "runAndLogCommand"
                                   THEN escapeArgLocal(o.args[i])
                                   ELSE escapeArg(o.args[i])])
        command == IF Len(o.args) > 0 THEN <<"git", " ">> \o joinedArgs ELSE <<"git">>
        sudoCommand == IF o.sudo THEN <<"sudo", " ">> \o command ELSE command
    IN <<"cd", " ", PROJECT_DIR, " ", "&", "&", " ">> \o sudoCommand

\* sh reading a command line: st is what it has read so far, the finished
\* commands, the finished words of the current command, the word in
\* progress (open once anything, even '', has started it) and whether it is
\* inside single quotes.
ShStart == [cmds |-> <<>>, words |-> <<>>, word |-> <<>>, open |-> FALSE, quoted |-> FALSE]

EndWord(st) ==
    IF st.open THEN [st EXCEPT !.words = Append(@, st.word), !.word = <<>>, !.open = FALSE]
    ELSE st

EndCommand(st) ==
    LET w == EndWord(st)
    IN [w EXCEPT !.cmds = Append(@, w.words), !.words = <<>>]

RECURSIVE ShRead(_, _)
ShRead(s, st) ==
    IF s = <<>> THEN EndCommand(st).cmds
    ELSE LET c == Head(s)
             put(x) == [st EXCEPT !.word = Append(@, x), !.open = TRUE]
         IN IF st.quoted
            THEN IF c = "'" THEN ShRead(Tail(s), [st EXCEPT !.quoted = FALSE])
                 ELSE ShRead(Tail(s), put(c))
            ELSE CASE c = "'" -> ShRead(Tail(s), [st EXCEPT !.quoted = TRUE, !.open = TRUE])
                   [] c = "\\" -> IF Len(s) > 1 THEN ShRead(Tail(Tail(s)), put(s[2]))
                                  ELSE ShRead(Tail(s), st)
                   [] c = " " -> ShRead(Tail(s), EndWord(st))
                   [] c = "&" -> ShRead(IF Len(s) > 1 /\ s[2] = "&" THEN Tail(Tail(s))
                                        ELSE Tail(s), EndCommand(st))
                   [] c = "$" -> ShRead(Tail(s), put("<expansion>"))
                   [] OTHER -> ShRead(Tail(s), put(c))

NoRunCommand ==
    /\ options = [caller |-> "runCommand", args |-> <<>>, sudo |-> FALSE]
    /\ shellCommand = <<>>
    /\ argv = <<>>
    /\ qpc = "idle"

\* args.push('sh', '-c', shellCommand); in runAndLogCommand,
\* runCommandInSandbox(sandbox, 'sh', ['-c', cdCommand]).
appendCwdCommand ==
    /\ qpc = "L349"
    /\ shellCommand' = ShellCommandOf(options)
    /\ qpc' = "sh"
    /\ UNCHANGED <<options, argv>>

\* docker exec <id> sh -c shellCommand: the shell runs the line.
shExec ==
    /\ qpc = "sh"
    /\ argv' = ShRead(shellCommand, ShStart)
    /\ qpc' = "ran"
    /\ UNCHANGED <<options, shellCommand>>

----------------------------------------------------------------------------
\* The DockerSandbox class of docker-sandbox.ts: its static map of live
\* handles, the shared image promise, the objects it constructs, the
\* containers of the docker runtime, and the calls of create, get and stop
\* that are in progress.  A call is at the statement named by its pc; every
\* await is a place where other calls and events may run.

\* The two callers whose calls may overlap.
Callers == {"p", "q"}

\* Most calls of create, get and stop (idle timeouts included) in one run.
MaxCalls == 3

\* A container left running by an earlier process, known only to the runtime.
ExistingId == <<"sandbox", 0>>

\* `sandbox-${randomBytes(8).toString('hex')}`: a fresh id for the n-th object.
NewSandboxId(n) == <<"sandbox", n>>

NoCall == [op |-> "none", pc |-> "done", h |-> 0, id |-> <<>>, timeout |-> FALSE,
           found |-> FALSE, state |-> "", late |-> FALSE, outcome |-> "none"]

\* The code of a 'close' event: a number, or null after a signal.
NullCode == [isNull |-> TRUE, n |-> 0]
ExitCode(n) == [isNull |-> FALSE, n |-> n]
ExitCodes == {NullCode, ExitCode(0), ExitCode(1)}
\* code && code !== 0, and code ?? 0
IsFailure(code) == ~code.isNull /\ code.n # 0
OrZero(code) == IF code.isNull THEN 0 ELSE code.n

NoChild == [owner |-> 0, proc |-> "none", code |-> NullCode, listeners |-> FALSE,
            tracked |-> FALSE, timer |-> "none", settled |-> FALSE,
            promise |-> "none", value |-> [exitCode |-> 0, success |-> FALSE],
            error |-> "", settleCalls |-> 0, early |-> FALSE,
            runningAtTimer |-> FALSE, detached |-> FALSE, hadContainer |-> FALSE,
            stderr |-> FALSE, statusAtCall |-> "", piped |-> {}, written |-> {},
            unread |-> {}, late |-> {}]

\* The state of the class when nothing has been created or looked up.
NoDocker ==
    /\ instances = <<>>
    /\ imagePromise = Null
    /\ imageStarts = 0
    /\ handles = <<>>
    /\ containers = {}
    /\ calls = [c \in Callers |-> NoCall]
    /\ started = 0
    /\ child = NoChild
    /\ stopDone = {}

Free(c) == calls[c].pc = "done"
CanStart(c) == Free(c) /\ started < MaxCalls

\* A call moves to its next statement, returns, or rejects.
At(c, l) == [calls EXCEPT ![c].pc = l]
Returns(c, h) == [calls EXCEPT ![c].pc = "done", ![c].h = h, ![c].outcome = "returned"]
Rejects(c, m) == [calls EXCEPT ![c].pc = "done", ![c].outcome = m]

\* Map.set and Map.delete of DockerSandbox.instances.
MapSet(m, k, v) == [x \in DOMAIN m \cup {k} |-> IF x = k THEN v ELSE m[x]]
MapDelete(m, k) == [x \in DOMAIN m \ {k} |-> m[x]]

\* new DockerSandbox(config): status 'running', no container yet.
NewHandle(id, timeout) ==
    [sandboxId |-> id, containerId |-> Null, status |-> "running",
     timeoutHandle |-> FALSE, timeout |-> timeout, held |-> FALSE, runs |-> 0]

\* ---- create ----

\* A caller calls DockerSandbox.create(config); config.timeout is positive
\* or absent.
create(c) ==
    /\ CanStart(c)
    /\ \E timeout \in BOOLEAN :
          calls' = [calls EXCEPT ![c] = [NoCall EXCEPT !.op = "create", !.pc = "L161",
                                                       !.timeout = timeout]]
    /\ started' = started + 1
    /\ UNCHANGED <<instances, imagePromise, imageStarts, handles, containers, child,
                   stopDone>>

\* A variant of ensureImage that does not look at imagePromise.
ensureImageUnguarded(c) ==
    /\ calls[c].pc = "L161"
    /\ imagePromise' = "pending"
    /\ imageStarts' = imageStarts + 1
    /\ calls' = At(c, "L206")
    /\ UNCHANGED <<instances, handles, containers, started, child, stopDone>>

\* A variant of ensureImage that starts the check again when the promise it
\* finds has rejected.
ensureImageRetries(c) ==
    /\ calls[c].pc = "L161"
    /\ IF imagePromise \notin {Null, "rejected"}
       THEN /\ calls' = At(c, "L162")
            /\ UNCHANGED <<imagePromise, imageStarts>>
       ELSE /\ imagePromise' = "pending"
            /\ imageStarts' = imageStarts + 1
            /\ calls' = At(c, "L206")
    /\ UNCHANGED <<instances, handles, containers, started, child, stopDone>>

\* if (DockerSandbox.imagePromise) { await it } else { imagePromise = (async
\* () => ...)() }: test and assignment run without an await between them.
ensureImage(c) ==
    /\ calls[c].pc = "L161"
    /\ IF imagePromise # Null
       THEN /\ calls' = At(c, "L162")
            /\ UNCHANGED <<imagePromise, imageStarts>>
       ELSE /\ imagePromise' = "pending"
            /\ imageStarts' = imageStarts + 1
            /\ calls' = At(c, "L206")
    /\ UNCHANGED <<instances, handles, containers, started, child, stopDone>>

\* The body of the image promise: docker image inspect succeeds, or it fails
\* and docker build succeeds, or the build fails and the promise rejects.
imageTask ==
    /\ imagePromise = "pending"
    /\ \E outcome \in {"inspected", "built", "failed"} :
          imagePromise' = IF outcome = "failed" THEN "rejected" ELSE "fulfilled"
    /\ UNCHANGED <<instances, imageStarts, handles, containers, calls, started, child,
                   stopDone>>

\* await DockerSandbox.imagePromise (lines 162 and 206), then in create
\* new DockerSandbox(config).
awaitImage(c) ==
    /\ calls[c].pc \in {"L162", "L206"}
    /\ imagePromise \in {"fulfilled", "rejected"}
    /\ IF imagePromise = "rejected"
       THEN /\ calls' = Rejects(c, "docker build failed")
            /\ UNCHANGED handles
       ELSE /\ handles' = Append(handles, NewHandle(NewSandboxId(Len(handles) + 1),
                                                    calls[c].timeout))
            /\ calls' = [calls EXCEPT ![c].pc = "L211", ![c].h = Len(handles) + 1]
    /\ UNCHANGED <<instances, imagePromise, imageStarts, containers, started, child,
                   stopDone>>

\* A variant of initialize that arms the idle timer as soon as the
\* container runs.
initializeContainerArmsTimer(c) ==
    /\ calls[c].pc = "L211"
    /\ LET h == calls[c].h
       IN \E failed \in {"none", "volume", "run"} :
             IF failed = "none"
             THEN /\ containers' = containers \cup {handles[h].sandboxId}
                  /\ handles' = [handles EXCEPT ![h].containerId = "cid",
                                                ![h].runs = handles[h].runs + 1,
                                                ![h].timeoutHandle = handles[h].timeout]
                  /\ calls' = At(c, "L230")
             ELSE /\ calls' = Rejects(c, "Failed to create Docker sandbox")
                  /\ handles' = [handles EXCEPT ![h].runs =
                                    handles[h].runs + (IF failed = "run" THEN 1 ELSE 0)]
                  /\ UNCHANGED containers
    /\ UNCHANGED <<instances, imagePromise, imageStarts, started, child, stopDone>>

\* initialize, up to this.containerId = stdout.trim(): docker volume create
\* twice and docker run; a failure of any of them is rethrown.  runs counts
\* the docker run commands issued for the object.
initializeContainer(c) ==
    /\ calls[c].pc = "L211"
    /\ LET h == calls[c].h
       IN \E failed \in {"none", "volume", "run"} :
             IF failed = "none"
             THEN /\ containers' = containers \cup {handles[h].sandboxId}
                  /\ handles' = [handles EXCEPT ![h].containerId = "cid",
                                                ![h].runs = handles[h].runs + 1]
                  /\ calls' = At(c, "L230")
             ELSE /\ calls' = Rejects(c, "Failed to create Docker sandbox")
                  /\ handles' = [handles EXCEPT ![h].runs =
                                    handles[h].runs + (IF failed = "run" THEN 1 ELSE 0)]
                  /\ UNCHANGED containers
    /\ UNCHANGED <<instances, imagePromise, imageStarts, started, child, stopDone>>

\* A variant of the end of create that returns the object without putting
\* it into the map.
initializeSourceUntracked(c) ==
    /\ calls[c].pc = "L230"
    /\ LET h == calls[c].h
       IN \E ok \in BOOLEAN :
             IF ok
             THEN /\ handles' = [handles EXCEPT ![h].timeoutHandle = handles[h].timeout,
                                                ![h].held = TRUE]
                  /\ calls' = Returns(c, h)
             ELSE /\ calls' = Rejects(c, "Failed to create Docker sandbox")
                  /\ UNCHANGED handles
    /\ UNCHANGED <<instances, imagePromise, imageStarts, containers, started, child,
                   stopDone>>

\* initialize from await this.setupSource() on: a failure is rethrown and
\* the container stays; otherwise the idle timer is armed when config.timeout
\* is positive, and create puts the object into the map and returns it.
initializeSource(c) ==
    /\ calls[c].pc = "L230"
    /\ LET h == calls[c].h
       IN \E ok \in BOOLEAN :
             IF ok
             THEN /\ handles' = [handles EXCEPT ![h].timeoutHandle = handles[h].timeout,
                                                ![h].held = TRUE]
                  /\ instances' = MapSet(instances, handles[h].sandboxId, h)
                  /\ calls' = Returns(c, h)
             ELSE /\ calls' = Rejects(c, "Failed to create Docker sandbox")
                  /\ UNCHANGED <<handles, instances>>
    /\ UNCHANGED <<imagePromise, imageStarts, containers, started, child, stopDone>>

\* ---- get ----

\* The sandbox ids a caller can know: that of the container found running
\* and those of the objects that create or get has returned.  (The id of an
\* object is drawn inside create and reaches no caller before create
\* returns.)
KnownIds ==
    {ExistingId} \cup {handles[i].sandboxId : i \in {j \in DOMAIN handles : handles[j].held}}

\* A caller calls DockerSandbox.get({ sandboxId }): the object in the map is
\* returned at once; otherwise docker inspect is started.
get(c) ==
    /\ CanStart(c)
    /\ \E id \in KnownIds :
          LET call == [NoCall EXCEPT !.op = "get", !.id = id, !.late = id \in stopDone]
          IN IF id \in DOMAIN instances
             THEN calls' = [calls EXCEPT ![c] = [call EXCEPT !.h = instances[id],
                                                             !.outcome = "returned"]]
             ELSE calls' = [calls EXCEPT ![c] = [call EXCEPT !.pc = "L152"]]
    /\ started' = started + 1
    /\ UNCHANGED <<instances, imagePromise, imageStarts, handles, containers, child,
                   stopDone>>

\* State.Status of a container as docker inspect reports it; "" when the
\* answer has none.
InspectStatuses == {"running", "exited", ""}

\* docker inspect reads the runtime: the container is there, in some state,
\* or it is not.
inspectContainer(c) ==
    /\ calls[c].pc = "L152"
    /\ IF calls[c].id \in containers
       THEN \E st \in InspectStatuses :
               calls' = [calls EXCEPT ![c].pc = "L122", ![c].found = TRUE,
                                      ![c].state = st]
       ELSE calls' = [calls EXCEPT ![c].pc = "L122", ![c].found = FALSE]
    /\ UNCHANGED <<instances, imagePromise, imageStarts, handles, containers, started,
                   child, stopDone>>

\* A variant of the rest of get that puts the first object made for the id
\* back into use instead of making a new one.
reconnectRevives(c) ==
    /\ calls[c].pc = "L122"
    /\ LET id == calls[c].id
           old == {h \in DOMAIN handles : handles[h].sandboxId = id}
       IN IF ~calls[c].found
          THEN /\ calls' = Rejects(c, "Sandbox not found")
               /\ UNCHANGED <<handles, instances>>
          ELSE IF old # {}
          THEN LET h == CHOOSE x \in old : TRUE
               IN /\ handles' = [handles EXCEPT ![h].containerId = "cid",
                                                 ![h].status = "running"]
                  /\ instances' = MapSet(instances, id, h)
                  /\ calls' = Returns(c, h)
          ELSE /\ handles' = Append(handles, [NewHandle(id, FALSE) EXCEPT
                                  !.containerId = "cid", !.held = TRUE])
               /\ instances' = MapSet(instances, id, Len(handles) + 1)
               /\ calls' = Returns(c, Len(handles) + 1)
    /\ UNCHANGED <<imagePromise, imageStarts, containers, started, child, stopDone>>

\* A variant of the rest of get that arms an idle timer on the new object.
reconnectArmsTimer(c) ==
    /\ calls[c].pc = "L122"
    /\ LET id == calls[c].id
       IN IF ~calls[c].found
          THEN /\ calls' = Rejects(c, "Sandbox not found")
               /\ UNCHANGED <<handles, instances>>
          ELSE /\ handles' = Append(handles, [NewHandle(id, TRUE) EXCEPT
                                  !.containerId = "cid", !.held = TRUE,
                                  !.timeoutHandle = TRUE,
                                  !.status = IF calls[c].state # "" THEN calls[c].state
                                             ELSE "running"])
               /\ instances' = MapSet(instances, id, Len(handles) + 1)
               /\ calls' = Returns(c, Len(handles) + 1)
    /\ UNCHANGED <<imagePromise, imageStarts, containers, started, child, stopDone>>

\* The rest of get after the inspect: 'Sandbox not found', or a new object
\* with the container's id and status, put into the map and returned.
reconnect(c) ==
    /\ calls[c].pc = "L122"
    /\ LET id == calls[c].id
       IN IF ~calls[c].found
          THEN /\ calls' = Rejects(c, "Sandbox not found")
               /\ UNCHANGED <<handles, instances>>
          ELSE /\ handles' = Append(handles, [NewHandle(id, FALSE) EXCEPT
                                  !.containerId = "cid", !.held = TRUE,
                                  !.status = IF calls[c].state # "" THEN calls[c].state
                                             ELSE "running"])
               /\ instances' = MapSet(instances, id, Len(handles) + 1)
               /\ calls' = Returns(c, Len(handles) + 1)
    /\ UNCHANGED <<imagePromise, imageStarts, containers, started, child, stopDone>>

\* ---- stop ----

\* stop up to the first await of cleanup: status, the idle timer, the
\* listeners of the detached children, and the test of containerId.
StopBegins(c, h, op) ==
    /\ CanStart(c)
    /\ handles' = [handles EXCEPT ![h].status = "stopped", ![h].timeoutHandle = FALSE]
    /\ child' = IF child.owner = h /\ child.tracked
                THEN [child EXCEPT !.listeners = FALSE, !.tracked = FALSE]
                ELSE child
    /\ calls' = [calls EXCEPT ![c] = [NoCall EXCEPT
                    !.op = op, !.h = h, !.id = handles[h].sandboxId,
                    !.pc = IF handles[h].containerId # Null THEN "L515" ELSE "L522"]]
    /\ started' = started + 1
    /\ UNCHANGED <<instances, imagePromise, imageStarts, containers, stopDone>>

\* A caller that holds the object calls stop().
stop(c) ==
    \E h \in DOMAIN handles : handles[h].held /\ StopBegins(c, h, "stop")

\* The idle timer of initialize fires: this.stop().catch(() => {}).
idleTimeout(c) ==
    \E h \in DOMAIN handles : handles[h].timeoutHandle /\ StopBegins(c, h, "timeout")

\* A variant of the container removal with no try/catch around it.
removeContainerUncaught(c) ==
    /\ calls[c].pc = "L515"
    /\ LET h == calls[c].h
       IN \E ok \in BOOLEAN :
             IF ok
             THEN /\ containers' = containers \ {calls[c].id}
                  /\ handles' = [handles EXCEPT ![h].containerId = Null]
                  /\ calls' = At(c, "L522")
             ELSE /\ calls' = Rejects(c, "docker rm failed")
                  /\ UNCHANGED <<containers, handles>>
    /\ UNCHANGED <<instances, imagePromise, imageStarts, started, child, stopDone>>

\* try { await execAsync(`docker rm -f ...`) } catch { console.error }, then
\* this.containerId = null: the container is gone, or the removal failed and
\* it is still there.
removeContainer(c) ==
    /\ calls[c].pc = "L515"
    /\ LET h == calls[c].h
       IN /\ \E ok \in BOOLEAN :
                containers' = IF ok THEN containers \ {calls[c].id} ELSE containers
          /\ handles' = [handles EXCEPT ![h].containerId = Null]
    /\ calls' = At(c, "L522")
    /\ UNCHANGED <<instances, imagePromise, imageStarts, started, child, stopDone>>

\* The two docker volume rm -f with .catch(() => {}), then in stop
\* DockerSandbox.instances.delete(this.sandboxId).
removeVolumes(c) ==
    /\ calls[c].pc \in {"L522", "L523"}
    /\ \E ok \in BOOLEAN :
          IF calls[c].pc = "L522"
          THEN /\ calls' = At(c, "L523")
               /\ UNCHANGED <<instances, stopDone>>
          ELSE /\ instances' = MapDelete(instances, calls[c].id)
               /\ stopDone' = stopDone \cup {calls[c].id}
               /\ calls' = Returns(c, calls[c].h)
    /\ UNCHANGED <<imagePromise, imageStarts, handles, containers, started, child>>

\* ---- runCommand, detached ----

\* resolve and reject of the promise of runDetachedCommand: only the first
\* call settles it.
Resolve(ch, v) ==
    [ch EXCEPT !.settleCalls = ch.settleCalls + 1,
               !.promise = IF ch.promise = "pending" THEN "resolved" ELSE ch.promise,
               !.value = IF ch.promise = "pending" THEN v ELSE ch.value]
Reject(ch, m) ==
    [ch EXCEPT !.settleCalls = ch.settleCalls + 1,
               !.promise = IF ch.promise = "pending" THEN "rejected" ELSE ch.promise,
               !.error = IF ch.promise = "pending" THEN m ELSE ch.error]

\* The two output streams of the child.
Streams == {"stdout", "stderr"}

\* cleanup() of runDetachedCommand: unpipe of the sinks the caller supplied.
cleanup(ch) == [ch EXCEPT !.piped = {}]

\* A variant of finish that leaves the pipes in place.
finishKeepsPipes(ch, v) ==
    IF ch.settled THEN ch ELSE Resolve([ch EXCEPT !.settled = TRUE], v)

\* finish(result): if (settled) return; settled = true; cleanup();
\* resolve(result).
finish(ch, v) ==
    IF ch.settled THEN ch ELSE Resolve(cleanup([ch EXCEPT !.settled = TRUE]), v)

\* A caller that holds the object calls runCommand({ detached: true }): it
\* rejects when there is no containerId, otherwise the docker exec child is
\* spawned, kept in detachedProcesses, and the 500 ms timer is armed. The
\* spawn inside the promise executor returns a child, whose failure to start
\* comes later as an 'error' event, or it throws (an argument with a NUL
\* character, an argument list too long for the system), and the executor's
\* exception rejects the promise.  The streams for which the caller supplied
\* a sink are piped into it.
runCommandDetached ==
    /\ child.proc = "none"
    /\ child.promise = "none"
    /\ \E h \in DOMAIN handles, spawned \in {"child", "throws"},
          sinks \in SUBSET Streams :
          /\ handles[h].held
          /\ child' = IF handles[h].containerId = Null
                      THEN [NoChild EXCEPT !.owner = h, !.statusAtCall = handles[h].status, !.detached = TRUE,
                                           !.promise = "rejected",
                                           !.error = "Sandbox not initialized"]
                      ELSE IF spawned = "throws"
                      THEN [NoChild EXCEPT !.owner = h, !.statusAtCall = handles[h].status, !.detached = TRUE,
                                           !.hadContainer = TRUE,
                                           !.promise = "rejected", !.error = "spawn"]
                      ELSE [NoChild EXCEPT !.owner = h, !.statusAtCall = handles[h].status, !.detached = TRUE,
                                           !.hadContainer = TRUE, !.proc = "running",
                                           !.listeners = TRUE, !.tracked = TRUE,
                                           !.timer = "armed", !.promise = "pending",
                                           !.piped = sinks]
    /\ UNCHANGED <<instances, imagePromise, imageStarts, handles, containers, calls,
                   started, stopDone>>

\* A variant of runCommand that spawns without looking at containerId.
runForegroundCommandUnchecked ==
    /\ child.proc = "none"
    /\ child.promise = "none"
    /\ \E h \in DOMAIN handles :
          /\ handles[h].held
          /\ child' = [NoChild EXCEPT !.owner = h, !.statusAtCall = handles[h].status,
                                      !.hadContainer = (handles[h].containerId # Null),
                                      !.proc = "running", !.listeners = TRUE,
                                      !.promise = "pending"]
    /\ UNCHANGED <<instances, imagePromise, imageStarts, handles, containers, calls,
                   started, stopDone>>

\* A caller that holds the object calls runCommand without detached: it
\* rejects when there is no containerId, otherwise the docker exec child is
\* spawned with its 'close' and 'error' listeners; the child is not kept in
\* detachedProcesses and there is no timer.  Its 'data' listeners write
\* each chunk to the sink the caller supplied for the stream.
runForegroundCommand ==
    /\ child.proc = "none"
    /\ child.promise = "none"
    /\ \E h \in DOMAIN handles, spawned \in {"child", "throws"},
          sinks \in SUBSET Streams :
          /\ handles[h].held
          /\ child' = IF handles[h].containerId = Null
                      THEN [NoChild EXCEPT !.owner = h, !.statusAtCall = handles[h].status, !.promise = "rejected",
                                           !.error = "Sandbox not initialized"]
                      ELSE IF spawned = "throws"
                      THEN [NoChild EXCEPT !.owner = h, !.statusAtCall = handles[h].status, !.hadContainer = TRUE,
                                           !.promise = "rejected", !.error = "spawn"]
                      ELSE [NoChild EXCEPT !.owner = h, !.statusAtCall = handles[h].status, !.hadContainer = TRUE,
                                           !.proc = "running", !.listeners = TRUE,
                                           !.promise = "pending", !.piped = sinks]
    /\ UNCHANGED <<instances, imagePromise, imageStarts, handles, containers, calls,
                   started, stopDone>>

\* The running child writes a chunk to one of its streams: the chunk goes to
\* the sink the stream is piped into, and stays unread in the stream when
\* there is none.  late records the writes to a sink that come after the
\* promise has settled.
onData ==
    /\ child.proc = "running"
    /\ \E s \in Streams :
          child' = IF s \in child.piped
                   THEN [child EXCEPT !.written = @ \cup {s},
                                      !.late = IF child.promise \in {"resolved", "rejected"}
                                               THEN @ \cup {s} ELSE @]
                   ELSE [child EXCEPT !.unread = @ \cup {s}]
    /\ UNCHANGED <<instances, imagePromise, imageStarts, handles, containers, calls,
                   started, stopDone>>

\* A variant of the timer callback that does nothing.
graceTimerIgnored ==
    /\ child.timer = "armed"
    /\ child' = [child EXCEPT !.timer = "fired", !.runningAtTimer = (child.proc = "running")]
    /\ UNCHANGED <<instances, imagePromise, imageStarts, handles, containers, calls,
                   started, stopDone>>

\* setTimeout(() => finish({ exitCode: 0, success: true, ... }), 500) fires.
graceTimer ==
    /\ child.timer = "armed"
    /\ child' = finish([child EXCEPT !.timer = "fired",
                                     !.runningAtTimer = (child.proc = "running")],
                       [exitCode |-> 0, success |-> TRUE])
    /\ UNCHANGED <<instances, imagePromise, imageStarts, handles, containers, calls,
                   started, stopDone>>

\* The child emits 'error' (the spawn failed) while its listener is
\* attached: the detached listener clears the timer and rejects unless
\* settled; the foreground listener adds the message to stderr.  (An 'error'
\* with no listener is an uncaught exception of the whole process.)
onError ==
    /\ child.proc = "running"
    /\ child.listeners
    /\ LET emitted == [child EXCEPT !.proc = "errored",
                                    !.early = child.early \/ child.timer = "armed"]
           cleared == [emitted EXCEPT !.timer = IF emitted.timer = "armed"
                                                THEN "cleared" ELSE emitted.timer]
       IN child' = IF ~child.detached THEN [emitted EXCEPT !.stderr = TRUE]
                   ELSE IF cleared.settled THEN cleared
                   ELSE Reject(cleanup([cleared EXCEPT !.settled = TRUE]), "spawn error")
    /\ UNCHANGED <<instances, imagePromise, imageStarts, handles, containers, calls,
                   started, stopDone>>

\* A variant of the 'close' listeners that takes success from the raw code.
onCloseRawSuccess(code) ==
    /\ child.proc \in {"running", "errored"}
    /\ child.proc = "errored" => IsFailure(code)
    /\ LET emitted == [child EXCEPT !.proc = "closed", !.code = code,
                                    !.early = \/ child.early
                                              \/ child.timer = "armed" /\ IsFailure(code)]
           cleared == [emitted EXCEPT !.timer = IF emitted.timer = "armed"
                                                THEN "cleared" ELSE emitted.timer]
           raw == ~code.isNull /\ code.n = 0
       IN child' = IF ~child.listeners THEN emitted
                   ELSE IF ~child.detached
                   THEN Resolve(emitted, [exitCode |-> IF code.isNull THEN 1 ELSE code.n,
                                          success |-> raw])
                   ELSE IF cleared.settled THEN cleared
                   ELSE IF IsFailure(code)
                   THEN Reject(cleanup([cleared EXCEPT !.settled = TRUE]),
                               "Detached command exited with code 1")
                   ELSE finish(cleared, [exitCode |-> OrZero(code), success |-> raw])
    /\ UNCHANGED <<instances, imagePromise, imageStarts, handles, containers, calls,
                   started, stopDone>>

\* The child emits 'close' with its exit code (null after a signal; the
\* nonzero errno after a failed spawn).  The detached listener, if it is
\* still attached, clears the timer and, unless settled, rejects for a
\* nonzero code and finishes with code ?? 0 otherwise; the foreground
\* listener resolves with code ?? 1.
onClose(code) ==
    /\ child.proc \in {"running", "errored"}
    /\ child.proc = "errored" => IsFailure(code)
    /\ LET emitted == [child EXCEPT !.proc = "closed", !.code = code,
                                    !.early = \/ child.early
                                              \/ child.timer = "armed" /\ IsFailure(code)]
           cleared == [emitted EXCEPT !.timer = IF emitted.timer = "armed"
                                                THEN "cleared" ELSE emitted.timer]
           orOne == IF code.isNull THEN 1 ELSE code.n
       IN child' = IF ~child.listeners THEN emitted
                   ELSE IF ~child.detached
                   THEN Resolve(emitted, [exitCode |-> orOne, success |-> orOne = 0])
                   ELSE IF cleared.settled THEN cleared
                   ELSE IF IsFailure(code)
                   THEN Reject(cleanup([cleared EXCEPT !.settled = TRUE]),
                               "Detached command exited with code 1")
                   ELSE finish(cleared, [exitCode |-> OrZero(code),
                                         success |-> OrZero(code) = 0])
    /\ UNCHANGED <<instances, imagePromise, imageStarts, handles, containers, calls,
                   started, stopDone>>

----------------------------------------------------------------------------
\* Control flow

NoResult == [success |-> TRUE, output |-> <<>>, error |-> ""]

\* The locals of the methods whose frames are discarded.
Unwind ==
    /\ stage' = "beforeSandboxCreation"
    /\ callee' = "none"
    /\ cmdResult' = NoResult
    /\ pmLocal' = Null
    /\ packageJson' = NoPackageJson
    /\ branchName' = Undefined

\* Control moves to line l; the step assigns its locals itself.
Jump(l) == pc' = l /\ thrown' = thrown

\* Control moves to line l; no local changes.
Goto(l) == Jump(l) /\ UNCHANGED locals

\* An exception raised in run() unwinds to the catch of createSandbox.
Throw(e) == pc' = "L690" /\ thrown' = e /\ Unwind

----------------------------------------------------------------------------
\* Statement shapes.  Each is one awaited call of creation.ts.

others == <<fields, outer>>

\* await this.logger.info/error/command(...): the logger resolves, or it
\* rejects and the rejection propagates out of the awaiting method.
Log(at, to) ==
    /\ pc = at
    /\ \/ Goto(to) /\ UNCHANGED logFailed
       \/ \E e \in LoggerRejections : Throw(e) /\ logFailed' = TRUE
    /\ UNCHANGED <<others, history>>

\* await this.logger...(...) followed by a throw statement.
LogThrow(at, err) ==
    /\ pc = at
    /\ \/ Throw(err) /\ UNCHANGED logFailed
       \/ \E e \in LoggerRejections : Throw(e) /\ logFailed' = TRUE
    /\ UNCHANGED <<others, history>>

\* Cmd with every failure made fatal: the variant C4 must tell apart.
CmdFatal(at, what, okTo, failTo) ==
    /\ pc = at
    /\ \E r \in PlainResult :
          /\ Record("cmd", what, r.success)
          /\ IF r.success THEN Goto(okTo) ELSE Throw(Err("Command failed"))
    /\ UNCHANGED <<others, logFailed>>

\* A sandbox command whose failure the workflow tolerates or branches on.
Cmd(at, what, okTo, failTo) ==
    /\ pc = at
    /\ \E r \in PlainResult :
          /\ Record("cmd", what, r.success)
          /\ Goto(IF r.success THEN okTo ELSE failTo)
    /\ UNCHANGED <<others, logFailed>>

\* A sandbox command whose failure makes the method throw new Error(msg).
CmdOrThrow(at, what, to, msg) ==
    /\ pc = at
    /\ \E r \in PlainResult :
          /\ Record("cmd", what, r.success)
          /\ IF r.success THEN Goto(to) ELSE Throw(Err(msg))
    /\ UNCHANGED <<others, logFailed>>

\* await this.setProgress(value, message): calls config.onProgress when the
\* caller supplied one; a throwing callback propagates.
setProgress(at, to) ==
    /\ pc = at
    /\ IF config.onProgress
       THEN \/ Goto(to)
            \/ \E e \in CallbackRejections : Throw(e)
       ELSE Goto(to)
    /\ UNCHANGED <<others, history, logFailed>>

\* A poll of config.onCancellationCheck, recorded after the events `window`.
RecordPoll(window, e, s, o) ==
    /\ trace' = Append(window, Event(e, s, o))
    /\ polls' = Append(polls, Event(e, s, o))
    /\ UNCHANGED <<createCalls, depFailed, depSucceeded>>

\* Poll with the predicate's answer ignored: the variant C9 must tell apart.
PollIgnored(window, s, to, rest) ==
    IF config.onCancellationCheck
    THEN \/ \E o \in BOOLEAN :
               RecordPoll(window, "poll", s, o) /\ Jump(to) /\ UNCHANGED stage /\ rest
         \/ \E e \in CallbackRejections :
               RecordPoll(window, "pollThrow", s, FALSE) /\ Throw(e)
    ELSE /\ Jump(to)
         /\ trace' = window
         /\ UNCHANGED <<polls, createCalls, depFailed, depSucceeded, stage>>
         /\ rest

\* if (this.config.onCancellationCheck && (await this.config.onCancellationCheck()))
Poll(window, s, to, rest) ==
    IF config.onCancellationCheck
    THEN \/ RecordPoll(window, "poll", s, FALSE) /\ Jump(to) /\ UNCHANGED stage /\ rest
         \/ RecordPoll(window, "poll", s, TRUE) /\ Jump("L148") /\ stage' = s /\ rest
         \/ \E e \in CallbackRejections :
               RecordPoll(window, "pollThrow", s, FALSE) /\ Throw(e)
    ELSE /\ Jump(to)
         /\ trace' = window
         /\ UNCHANGED <<polls, createCalls, depFailed, depSucceeded, stage>>
         /\ rest

\* await this.checkCancellation(s), line 147.
checkCancellation(at, s, to) ==
    /\ pc = at
    /\ Poll(trace, s, to, UNCHANGED <<callee, cmdResult, pmLocal, packageJson, branchName>>)
    /\ UNCHANGED <<others, logFailed>>

\* checkCancellation, lines 148-149: log the stage message, then throw.
throwCancelled == LogThrow("L148", SandboxCancelledError(stage))

----------------------------------------------------------------------------
\* DockerSandbox.domain(port)

DefaultPorts == <<3000, 5173>>

\* `http://localhost:${targetPort}`
UrlOfPort == [p \in {3000, 5173, 8080} |->
                 IF p = 3000 THEN "http://localhost:3000"
                 ELSE IF p = 5173 THEN "http://localhost:5173"
                 ELSE "http://localhost:8080"]

NoSandbox == [sandboxId |-> Null, ports |-> <<>>]

domainOf(sb, port) ==
    LET targetPort == IF port # 0 THEN port
                      ELSE IF Len(sb.ports) > 0 /\ sb.ports[1] # 0 THEN sb.ports[1]
                      ELSE 3000
    IN UrlOfPort[targetPort]

----------------------------------------------------------------------------
\* createSandbox: the catch block

\* instanceof Error in place of instanceof SandboxCancelledError: the variant
\* C8 must tell apart.
IsAnyError(e) == e.name # "NonError"

\* error instanceof SandboxCancelledError
IsSandboxCancelledError(e) == e.name = "SandboxCancelledError"

\* error instanceof Error ? error.message : 'Unknown error occurred'
MessageOf(e) == IF e.name # "NonError" THEN e.message ELSE "Unknown error occurred"

CancelledResult == [success |-> FALSE, cancelled |-> TRUE]

ErrorResult(e) ==
    [success |-> FALSE,
     error |-> IF MessageOf(e) # "" THEN MessageOf(e) ELSE "Failed to create sandbox"]

\* A catch block that stops the sandbox of a cancelled run before returning.
createSandboxStopsOnCancel ==
    \/ /\ pc = "L690"
       /\ IsSandboxCancelledError(thrown)
       /\ pc' = "done"
       /\ settled' = "resolved"
       /\ result' = CancelledResult
       /\ handles' = [h \in DOMAIN handles |->
                        [handles[h] EXCEPT !.status = "stopped", !.timeoutHandle = FALSE,
                                           !.containerId = Null]]
       /\ instances' = <<>>
       /\ containers' = {}
       /\ UNCHANGED <<imagePromise, imageStarts, calls, started, child, stopDone>>
       /\ UNCHANGED <<config, quoting, labelRun, fields, registry, viteConfig, locals,
                      history, logFailed, thrown>>
    \/ /\ pc = "L690"
       /\ ~IsSandboxCancelledError(thrown)
       /\ Goto("L696")
       /\ UNCHANGED <<others, history, logFailed>>
    \/ /\ pc = "L696"
       /\ pc' = "done"
       /\ \/ /\ settled' = "resolved"
             /\ result' = ErrorResult(thrown)
             /\ UNCHANGED logFailed
          \/ \E e \in LoggerRejections :
                /\ settled' = "rejected"
                /\ result' = e
                /\ logFailed' = TRUE
       /\ UNCHANGED <<config, library, fields, registry, viteConfig, locals, history, thrown>>

createSandbox ==
    \/ /\ pc = "L690"
       /\ IsSandboxCancelledError(thrown)
       /\ pc' = "done"
       /\ settled' = "resolved"
       /\ result' = CancelledResult
       /\ UNCHANGED <<config, library, fields, registry, viteConfig, locals, history, logFailed, thrown>>
    \/ /\ pc = "L690"
       /\ ~IsSandboxCancelledError(thrown)
       /\ Goto("L696")
       /\ UNCHANGED <<others, history, logFailed>>
    \/ /\ pc = "L696"
       /\ pc' = "done"
       /\ \/ /\ settled' = "resolved"
             /\ result' = ErrorResult(thrown)
             /\ UNCHANGED logFailed
          \/ \E e \in LoggerRejections :
                /\ settled' = "rejected"
                /\ result' = e
                /\ logFailed' = TRUE
       /\ UNCHANGED <<config, library, fields, registry, viteConfig, locals, history, thrown>>

----------------------------------------------------------------------------
\* SandboxCreationWorkflow.run

SuccessResult ==
    [success |-> TRUE, sandbox |-> sandbox, domain |-> domain,
     branchName |-> branchName]

\* One of the four checkCancellation calls of run().  The stage methods
\* called before it have returned: their locals are gone, and the event
\* history starts afresh.
Checkpoint(at, s, to) ==
    /\ pc = at
    /\ Poll(<<>>, s, to,
            /\ cmdResult' = NoResult
            /\ pmLocal' = Null
            /\ packageJson' = NoPackageJson
            /\ UNCHANGED <<callee, branchName>>)
    /\ UNCHANGED <<others, logFailed>>

run ==
    \/ Log("L92", "L93")
    \/ Checkpoint("L93", "beforeSandboxCreation", "L117")
    \/ Checkpoint("L96", "afterSandboxCreation", "L207")
    \/ Checkpoint("L100", "afterDependencyInstallation", "L367")
    \/ /\ pc = "L102"
       /\ domain' = IF domain = Undefined THEN domainOf(sandbox, devPort) ELSE domain
       /\ Goto("L513")
       /\ UNCHANGED <<sandbox, packageJsonDetected, requirementsTxtDetected,
                      packageManager, devPort, outer,
                      history, logFailed>>
    \/ Checkpoint("L104", "beforeGitConfiguration", "L545")
    \/ /\ pc = "L108"
       /\ pc' = "done"
       /\ settled' = "resolved"
       /\ result' = SuccessResult
       /\ Unwind
       /\ UNCHANGED <<config, library, fields, registry, viteConfig, history, logFailed, thrown>>

----------------------------------------------------------------------------
\* validateEnvironment

\* validateEnvironmentVariables(selectedAgent, githubToken, apiKeys)
validateEnvironmentVariables(cfg) ==
    CASE cfg.env = "valid" -> [valid |-> TRUE, error |-> Undefined]
      [] cfg.env = "invalid" -> [valid |-> FALSE, error |-> "Missing API key"]
      [] OTHER -> [valid |-> FALSE, error |-> Undefined]

validateEnvironment ==
    \/ setProgress("L117", "L118")
    \/ /\ pc = "L118"
       /\ LET envValidation == validateEnvironmentVariables(config)
          IN IF ~envValidation.valid
             THEN Throw(Err(IF envValidation.error # Undefined
                            THEN envValidation.error
                            ELSE "Invalid sandbox configuration"))
             ELSE Goto("L126")
       /\ UNCHANGED <<others, history, logFailed>>
    \/ Log("L126", "L129")
    \/ Log("L129", "L154")

----------------------------------------------------------------------------
\* createSandboxInstance and handleSandboxCreationError

\* An exception inside the try block of createSandboxInstance is handed to
\* handleSandboxCreationError.
Caught(e) == pc' = "L175" /\ thrown' = e /\ UNCHANGED locals

\* registerSandbox(taskId, sandbox, keepAlive)
registerSandbox(taskId, sb) == registry' = [registry EXCEPT ![taskId] = sb.sandboxId]

\* What a resolved DockerSandbox.create leaves in the class, as the workflow's
\* process sees it: the image promise fulfilled, its object with a container
\* id, status 'running' and the idle timer armed (timeoutMs is positive), in
\* the map under its id, and the container in the runtime. (A rejected
\* create leaves the image promise settled, and the container when it was
\* the clone that failed.)
CreatedSandbox ==
    /\ handles' = << [NewHandle(NewSandboxId(1), TRUE) EXCEPT
                        !.containerId = "cid", !.timeoutHandle = TRUE,
                        !.held = TRUE, !.runs = 1] >>
    /\ instances' = MapSet(instances, NewSandboxId(1), 1)
    /\ containers' = containers \cup {NewSandboxId(1)}
    /\ imagePromise' = "fulfilled"
    /\ imageStarts' = 1
    /\ UNCHANGED <<calls, started, child, stopDone>>

createSandboxInstance ==
    \/ setProgress("L154", "L166")
    \/ /\ pc = "L166"
       /\ createCalls' = createCalls + 1
       /\ UNCHANGED <<polls, depFailed, depSucceeded>>
       /\ \/ /\ sandbox' = [sandboxId |-> SandboxId, ports |-> DefaultPorts]
             /\ trace' = Append(trace, Event("create", "Sandbox.create", TRUE))
             /\ Goto("L167")
             /\ CreatedSandbox
          \/ \E e \in CreateFailures :
                /\ trace' = Append(trace, Event("create", "Sandbox.create", FALSE))
                /\ Caught(e)
                /\ \E failed \in {"image", "run", "source"} :
                      /\ imagePromise' = IF failed = "image" THEN "rejected"
                                         ELSE "fulfilled"
                      /\ containers' = IF failed = "source"
                                       THEN containers \cup {NewSandboxId(1)}
                                       ELSE containers
                /\ imageStarts' = 1
                /\ UNCHANGED <<sandbox, instances, handles, calls, started, child,
                               stopDone>>
       /\ UNCHANGED <<packageJsonDetected, requirementsTxtDetected,
                      packageManager, devPort, domain, config, registry, viteConfig,
                      settled, result, quoting, labelRun, logFailed>>
    \/ /\ pc = "L167"
       /\ \/ Goto("L168") /\ UNCHANGED logFailed
          \/ \E e \in LoggerRejections : Caught(e) /\ logFailed' = TRUE
       /\ UNCHANGED <<others, history>>
    \/ /\ pc = "L168"
       /\ registerSandbox(config.taskId, sandbox)
       /\ Record("register", config.taskId, TRUE)
       /\ Goto("L96")
       /\ UNCHANGED <<config, library, fields, viteConfig, settled, result, logFailed>>

\* errorMessage?.includes('timeout') || errorCode === 'ETIMEDOUT' ||
\* errorName === 'TimeoutError'
TimeoutMessages == {"Failed to create Docker sandbox: timeout"}

IsTimeoutShaped(e) ==
    \/ MessageOf(e) \in TimeoutMessages
    \/ e.name = "TimeoutError"

handleSandboxCreationError ==
    \/ /\ pc = "L175"
       /\ Goto(IF IsTimeoutShaped(thrown) THEN "L185" ELSE "L190")
       /\ UNCHANGED <<others, history, logFailed>>
    \/ Log("L185", "L186")
    \/ LogThrow("L186",
          Err("Sandbox creation timed out. Try with a smaller repository or fewer dependencies."))
    \/ /\ thrown.response
       /\ Log("L190", "L192")
    \/ /\ ~thrown.response
       /\ LogThrow("L190", IF thrown.name # "NonError" THEN thrown
                           ELSE Err("Failed to create sandbox"))
    \/ Log("L192", "L193")
    \/ LogThrow("L193", IF thrown.name # "NonError" THEN thrown
                        ELSE Err("Failed to create sandbox"))

----------------------------------------------------------------------------
\* cloneRepository and detectProjectFiles

cloneRepository ==
    \/ Log("L207", "L209")
    \/ CmdOrThrow("L209", "mkdir -p", "L214", "Failed to create project directory")
    \/ Cmd("L214", "git clone", "L226", "L222")
    \/ LogThrow("L222", Err("Failed to clone repository to project directory"))
    \/ Log("L226", "L227")
    \/ setProgress("L227", "L232")

detectProjectFiles ==
    \/ /\ pc = "L232"
       /\ \E r \in PlainResult :
             /\ Record("cmd", "test -f package.json", r.success)
             /\ packageJsonDetected' = r.success
       /\ Goto("L233")
       /\ UNCHANGED <<sandbox, requirementsTxtDetected, packageManager,
                      devPort, domain, outer, logFailed>>
    \/ /\ pc = "L233"
       /\ \E r \in PlainResult :
             /\ Record("cmd", "test -f requirements.txt", r.success)
             /\ requirementsTxtDetected' = r.success
       /\ Goto("L237")
       /\ UNCHANGED <<sandbox, packageJsonDetected, packageManager,
                      devPort, domain, outer, logFailed>>

----------------------------------------------------------------------------
\* installDependenciesIfRequested

Branch(at, to) ==
    /\ pc = at
    /\ Goto(to)
    /\ UNCHANGED <<others, history, logFailed>>

\* installDependenciesIfRequested without its installDependencies === false
\* test: the variant C12 must tell apart.
installDependenciesAlways ==
    \/ Branch("L237", "L242")
    \/ Log("L238", "L100")
    \/ Log("L242", IF packageJsonDetected THEN "L255"
                   ELSE IF requirementsTxtDetected THEN "L309"
                   ELSE "L249")
    \/ Log("L249", "L100")

installDependenciesIfRequested ==
    \/ Branch("L237", IF config.installDependencies = "false" THEN "L238" ELSE "L242")
    \/ Log("L238", "L100")
    \/ Log("L242", IF packageJsonDetected THEN "L255"
                   ELSE IF requirementsTxtDetected THEN "L309"
                   ELSE "L249")
    \/ Log("L249", "L100")

----------------------------------------------------------------------------
\* Package manager: detectPackageManager, installDependencies, ensureGlobalTool

InstallCommand == [pnpm |-> "pnpm install", yarn |-> "yarn install", npm |-> "npm install"]
WhichCommand == [pnpm |-> "which pnpm", yarn |-> "which yarn"]
GlobalInstallCommand == [pnpm |-> "npm install -g pnpm", yarn |-> "npm install -g yarn"]

\* detectPackageManager(sandbox, logger): lockfile presence decides;
\* pnpm-lock.yaml -> pnpm, yarn.lock -> yarn, else npm.  The detected manager
\* goes to the local variable packageManager.
detectPackageManager ==
    \E lock \in {"pnpm", "yarn", "npm"} :
       /\ RecordAll(IF lock = "pnpm"
                    THEN <<Event("cmd", "test -f pnpm-lock.yaml", TRUE)>>
                    ELSE <<Event("cmd", "test -f pnpm-lock.yaml", FALSE),
                           Event("cmd", "test -f yarn.lock", lock = "yarn")>>)
       /\ pmLocal' = lock

\* installDependencies(sandbox, packageManager, logger): runs the install of
\* the given manager and returns its CommandResult.
installDependencies(at, manager, to) ==
    /\ pc = at
    /\ \E r \in PlainResult :
          /\ Record("cmd", InstallCommand[manager], r.success)
          /\ cmdResult' = r
    /\ Jump(to)
    /\ UNCHANGED <<others, stage, callee, pmLocal, packageJson, branchName, logFailed>>

\* ensureGlobalTool reporting the tool as present although its global install
\* failed: the variant C11 must tell apart.
ensureGlobalToolNoFallback ==
    \/ /\ pmLocal \in {"pnpm", "yarn"}
       /\ Cmd("L285", WhichCommand[pmLocal], "L265", "L291")
    \/ Log("L291", "L295")
    \/ /\ pmLocal \in {"pnpm", "yarn"}
       /\ Cmd("L295", GlobalInstallCommand[pmLocal], "L300", "L265")
    \/ Log("L300", "L265")

ensureGlobalTool ==
    \/ /\ pmLocal \in {"pnpm", "yarn"}
       /\ Cmd("L285", WhichCommand[pmLocal], "L265", "L291")
    \/ Log("L291", "L295")
    \/ /\ pmLocal \in {"pnpm", "yarn"}
       /\ Cmd("L295", GlobalInstallCommand[pmLocal], "L300", "L261")
    \/ Log("L300", "L265")

\* installNodeDependencies retrying with npm after any failed install, npm's
\* own included.
installNodeDependenciesRetryAlways ==
    \/ Log("L255", "L257")
    \/ /\ pc = "L257"
       /\ detectPackageManager
       /\ Jump("L258")
       /\ UNCHANGED <<others, stage, callee, cmdResult, packageJson, branchName, logFailed>>
    \/ Branch("L258", IF pmLocal \in {"pnpm", "yarn"} THEN "L285" ELSE "L265")
    \/ /\ pc = "L261"
       /\ \/ /\ Jump("L265")
             /\ pmLocal' = "npm"
             /\ UNCHANGED <<stage, callee, cmdResult, packageJson, branchName, logFailed>>
          \/ \E e \in LoggerRejections : Throw(e) /\ logFailed' = TRUE
       /\ UNCHANGED <<others, history>>
    \/ /\ pc = "L265"
       /\ packageManager' = pmLocal
       /\ Goto("L267")
       /\ UNCHANGED <<sandbox, packageJsonDetected, requirementsTxtDetected,
                      devPort, domain, outer, history,
                      logFailed>>
    \/ setProgress("L267", "L268")
    \/ /\ pmLocal # Null
       /\ installDependencies("L268", pmLocal, "L269")
    \/ checkCancellation("L269", "afterDependencyInstallation", "L271")
    \/ Branch("L271", IF ~cmdResult.success THEN "L272" ELSE "L100")
    \/ Log("L272", "L273")
    \/ setProgress("L273", "L274")
    \/ /\ pc = "L274"
       /\ \E r \in PlainResult : Record("cmd", InstallCommand["npm"], r.success)
                                  /\ Goto(IF r.success THEN "L100" ELSE "L276")
       /\ UNCHANGED <<others, logFailed>>
    \/ Log("L276", "L100")
    \/ Log("L279", "L100")

installNodeDependencies ==
    \/ Log("L255", "L257")
    \/ /\ pc = "L257"
       /\ detectPackageManager
       /\ Jump("L258")
       /\ UNCHANGED <<others, stage, callee, cmdResult, packageJson, branchName, logFailed>>
    \/ Branch("L258", IF pmLocal \in {"pnpm", "yarn"} THEN "L285" ELSE "L265")
    \/ /\ pc = "L261"
       /\ \/ /\ Jump("L265")
             /\ pmLocal' = "npm"
             /\ UNCHANGED <<stage, callee, cmdResult, packageJson, branchName, logFailed>>
          \/ \E e \in LoggerRejections : Throw(e) /\ logFailed' = TRUE
       /\ UNCHANGED <<others, history>>
    \/ /\ pc = "L265"
       /\ packageManager' = pmLocal
       /\ Goto("L267")
       /\ UNCHANGED <<sandbox, packageJsonDetected, requirementsTxtDetected,
                      devPort, domain, outer, history,
                      logFailed>>
    \/ setProgress("L267", "L268")
    \/ /\ pmLocal # Null
       /\ installDependencies("L268", pmLocal, "L269")
    \/ checkCancellation("L269", "afterDependencyInstallation", "L271")
    \/ Branch("L271", IF ~cmdResult.success /\ pmLocal # "npm" THEN "L272"
                      ELSE IF ~cmdResult.success THEN "L279"
                      ELSE "L100")
    \/ Log("L272", "L273")
    \/ setProgress("L273", "L274")
    \/ /\ pc = "L274"
       /\ \E r \in PlainResult : Record("cmd", InstallCommand["npm"], r.success)
                                  /\ Goto(IF r.success THEN "L100" ELSE "L276")
       /\ UNCHANGED <<others, logFailed>>
    \/ Log("L276", "L100")
    \/ Log("L279", "L100")

----------------------------------------------------------------------------
\* installPythonDependencies and ensurePipAvailable

ensurePipAvailable ==
    \/ Cmd("L326", "python3 -m pip --version", "L329", "L339")
    \/ Log("L329", "L330")
    \/ Cmd("L330", "python3 -m pip install --upgrade pip", "L332", "L334")
    \/ Log("L332", "L314")
    \/ Log("L334", "L314")
    \/ Log("L339", "L340")
    \/ Cmd("L340", "curl get-pip.py && python3 get-pip.py", "L346", "L350")
    \/ Log("L346", "L314")
    \/ Log("L350", "L351")
    \/ Cmd("L351", "apt-get install -y python3-pip", "L360", "L362")
    \/ Log("L360", "L314")
    \/ Log("L362", "L314")

installPythonDependencies ==
    \/ Log("L309", "L310")
    \/ setProgress("L310", "L326")
    \/ Cmd("L314", "python3 -m pip install -r requirements.txt", "L316", "L320")
    \/ Log("L316", "L100")
    \/ Log("L320", "L321")
    \/ Log("L321", "L100")

----------------------------------------------------------------------------
\* maybeStartDevServer, readPackageJson, buildDevServerCommand,
\* configureViteForSandbox, startDetachedDevServer

\* A sandbox command whose result the caller discards.
CmdUnchecked(at, what, to) ==
    /\ pc = at
    /\ Record("cmdUnchecked", what, TRUE)
    /\ Goto(to)
    /\ UNCHANGED <<others, logFailed>>

\* What JSON.parse can make of a package.json that has content: a parse
\* error (null), or an object with or without scripts.dev, a vite
\* dependency and a next dependency of major version 16.
PackageJsons == [parsed : {TRUE}, dev : BOOLEAN, vite : BOOLEAN, next16 : BOOLEAN]

readPackageJson ==
    /\ pc = "L394"
    /\ \E r \in CommandResult :
          /\ Record("cmd", "cat package.json", r.success)
          /\ IF ~r.success \/ r.output = <<>> \/ Trim(r.output) = <<>>
             THEN packageJson' = NoPackageJson
             ELSE packageJson' \in PackageJsons \cup {NoPackageJson}
    /\ Jump(IF ~packageJson'.parsed THEN "L373" ELSE "L407")
    /\ UNCHANGED <<others, stage, callee, cmdResult, pmLocal, branchName, logFailed>>

buildDevServerCommand ==
    \/ Branch("L407", IF ~packageJson.dev THEN "L102" ELSE "L412")
    \/ /\ pc = "L412"
       /\ IF packageManager # Null
          THEN pmLocal' = packageManager /\ UNCHANGED history
          ELSE detectPackageManager
       /\ Jump(IF packageJson.vite THEN "L419" ELSE "L424")
       /\ UNCHANGED <<others, stage, callee, cmdResult, packageJson, branchName,
                      logFailed>>
    \/ Log("L419", "L443")
    \/ Branch("L424", IF packageJson.next16 THEN "L426" ELSE "L382")
    \/ Log("L426", "L382")

configureViteForSandbox ==
    \/ Log("L443", "L444")
    \/ CmdUnchecked("L444", "echo vite.config.* >> ~/.gitignore_global", "L448")
    \/ CmdUnchecked("L448", "git config core.excludesfile", "L449")
    \/ Log("L449", "L451")
    \/ Cmd("L451", "test -f vite.config.js", "L456", "L424")
    \/ /\ pc = "L456"
       /\ \E r \in PlainResult :
             /\ Record("cmdUnchecked", "sed -i vite.config.js", TRUE)
             /\ viteConfig' = IF r.success THEN "patched" ELSE viteConfig
       /\ Goto("L470")
       /\ UNCHANGED <<config, library, fields, registry, settled, result, logFailed>>
    \/ Log("L470", "L424")

\* DockerSandbox.runDetachedCommand: what the call settles with, given the
\* first of the child's events and the 500 ms timer.
DetachedEvents == {"timer", "close0", "closeNull", "closeNonzero", "error"}

runDetachedCommand(event) ==
    CASE event = "timer" -> [settle |-> "resolve", error |-> NoError]
      [] event = "error" -> [settle |-> "reject", error |-> Err("spawn docker ENOENT")]
      [] event = "closeNonzero" ->
            [settle |-> "reject", error |-> Err("Detached command exited with code 1")]
      [] OTHER -> [settle |-> "resolve", error |-> NoError]

startDetachedDevServer ==
    /\ pc = "L502"
    /\ \E event \in DetachedEvents :
          LET settlement == runDetachedCommand(event)
          IN /\ Record("detached", "dev server", settlement.settle = "resolve")
             /\ IF settlement.settle = "resolve"
                THEN Goto("L384")
                ELSE Throw(settlement.error)
    /\ UNCHANGED <<others, logFailed>>

\* maybeStartDevServer without its !this.config.installDependencies test:
\* the variant C13 must tell apart.
maybeStartDevServerAlways ==
    \/ Branch("L367", IF ~packageJsonDetected THEN "L102" ELSE "L394")
    \/ Log("L373", "L102")
    \/ Log("L382", "L502")
    \/ Log("L384", "L387")
    \/ /\ pc = "L387"
       /\ devPort' = IF packageJson.vite THEN 5173 ELSE devPort
       /\ domain' = domainOf(sandbox, devPort')
       /\ Goto("L389")
       /\ UNCHANGED <<sandbox, packageJsonDetected, requirementsTxtDetected,
                      packageManager, outer, history, logFailed>>
    \/ Log("L389", "L102")

maybeStartDevServer ==
    \/ Branch("L367", IF ~packageJsonDetected \/ config.installDependencies # "true"
                      THEN "L102" ELSE "L394")
    \/ Log("L373", "L102")
    \/ Log("L382", "L502")
    \/ Log("L384", "L387")
    \/ /\ pc = "L387"
       /\ devPort' = IF packageJson.vite THEN 5173 ELSE devPort
       /\ domain' = domainOf(sandbox, devPort')
       /\ Goto("L389")
       /\ UNCHANGED <<sandbox, packageJsonDetected, requirementsTxtDetected,
                      packageManager, outer, history, logFailed>>
    \/ Log("L389", "L102")

----------------------------------------------------------------------------
\* logProjectReadiness

logProjectReadiness ==
    \/ Branch("L513", IF packageJsonDetected THEN "L514"
                      ELSE IF requirementsTxtDetected THEN "L520"
                      ELSE "L532")
    \/ Log("L514", "L515")
    \/ Log("L515", "L104")
    \/ Log("L520", "L521")
    \/ Log("L521", "L522")
    \/ /\ pc = "L522"
       /\ \E r \in PlainResult :
             /\ Record("cmd", "test -f app.py", r.success)
             /\ cmdResult' = r
       /\ Jump("L523")
       /\ UNCHANGED <<others, stage, callee, pmLocal, packageJson, branchName, logFailed>>
    \/ /\ pc = "L523"
       /\ \E r \in PlainResult :
             /\ Record("cmd", "test -f manage.py", r.success)
             /\ Goto(IF cmdResult.success THEN "L525"
                     ELSE IF r.success THEN "L527"
                     ELSE "L104")
       /\ UNCHANGED <<others, logFailed>>
    \/ Log("L525", "L104")
    \/ Log("L527", "L104")
    \/ Log("L532", "L533")
    \/ Log("L533", "L104")

----------------------------------------------------------------------------
\* configureGit: setGitAuthor and ensureGitRepository

setGitAuthor ==
    \/ CmdUnchecked("L545", "git config user.name", "L546")
    \/ CmdUnchecked("L546", "git config user.email", "L551")

ensureGitRepository ==
    \/ Cmd("L551", "git rev-parse --git-dir", "L553", "L557")
    \/ Log("L553", "L597")
    \/ Log("L557", "L558")
    \/ CmdOrThrow("L558", "git init", "L562", "Failed to initialize Git repository")
    \/ Log("L562", "L567")
    \/ CmdOrThrow("L567", "echo > README.md", "L572", "Failed to create initial README")
    \/ CmdOrThrow("L572", "git checkout -b main", "L577", "Failed to create main branch")
    \/ CmdOrThrow("L577", "git add README.md", "L582", "Failed to add README to git")
    \/ CmdOrThrow("L582", "git commit", "L587", "Failed to commit initial README")
    \/ Log("L587", "L588")
    \/ Cmd("L588", "git push -u origin main", "L590", "L592")
    \/ Log("L590", "L597")
    \/ Log("L592", "L597")

----------------------------------------------------------------------------
\* prepareBranch, handlePredeterminedBranch, ensureBranchFromRemote,
\* checkoutBranch, checkoutNewBranch, createFallbackBranch, runAndLogCommand

\* JavaScript truthiness of config.preDeterminedBranchName
Truthy(v) == v # Undefined /\ v # ""

\* agent/<timestamp>-<generateId()>
FallbackBranchNames == {"agent/2026-11-04T10-11-20-k3j9x0q2m5zt"}

\* Enters runAndLogCommand on behalf of one of the checkout helpers.
Enter(helper) ==
    /\ Jump("L25")
    /\ callee' = helper
    /\ UNCHANGED <<stage, cmdResult, pmLocal, packageJson, branchName>>

\* await this.logger.info(...) followed by a call of a checkout helper.
LogCall(at, helper) ==
    /\ pc = at
    /\ \/ Enter(helper) /\ UNCHANGED logFailed
       \/ \E e \in LoggerRejections : Throw(e) /\ logFailed' = TRUE
    /\ UNCHANGED <<others, history>>

prepareBranch ==
    \/ /\ pc = "L597"
       /\ Truthy(config.preDeterminedBranchName)
       /\ branchName' = config.preDeterminedBranchName
       /\ Jump("L606")
       /\ UNCHANGED <<others, stage, callee, cmdResult, pmLocal, packageJson,
                      history, logFailed>>
    \/ /\ pc = "L597"
       /\ ~Truthy(config.preDeterminedBranchName)
       /\ branchName' \in FallbackBranchNames
       /\ Jump("L678")
       /\ UNCHANGED <<others, stage, callee, cmdResult, pmLocal, packageJson,
                      history, logFailed>>

\* The remote check with its output ignored: the variant C10 must tell apart.
ExistsRemoteIgnoringOutput(r) == r.success

\* branchExistsRemote.success && branchExistsRemote.output?.trim()
ExistsRemote(r) == r.success /\ Trim(r.output) # <<>>

handlePredeterminedBranch ==
    \/ Log("L606", "L608")
    \/ Cmd("L608", "git show-ref --verify", "L615", "L620")
    \/ LogCall("L615", "checkoutBranch")
    \/ /\ pc = "L620"
       /\ \E r \in CommandResult :
             /\ RecordAll(<<Event("cmd", "git ls-remote --heads origin", r.success),
                           Event("output", "git ls-remote --heads origin",
                                 Trim(r.output) # <<>>)>>)
             /\ Goto(IF ExistsRemote(r) THEN "L622" ELSE "L628")
       /\ UNCHANGED <<others, logFailed>>
    \/ Log("L622", "L634")
    \/ LogCall("L628", "checkoutNewBranch")

ensureBranchFromRemote ==
    \/ /\ pc = "L634"
       /\ \E r \in PlainResult :
             /\ Record("cmd", "git fetch origin branch", r.success)
             /\ IF r.success THEN Enter("checkoutBranch") ELSE Goto("L639")
       /\ UNCHANGED <<others, logFailed>>
    \/ Log("L639", "L640")
    \/ CmdOrThrow("L640", "git fetch origin", "L645",
                  "Failed to fetch from remote Git repository")
    \/ /\ pc = "L645"
       /\ \E r \in PlainResult :
             /\ Record("cmd", "git branch --track", r.success)
             /\ IF r.success THEN Enter("checkoutBranch")
                ELSE Throw(Err("Failed to prepare tracking branch"))
       /\ UNCHANGED <<others, logFailed>>

CheckoutCommand == [checkoutBranch |-> "git checkout", checkoutNewBranch |-> "git checkout -b"]

\* Lines 31-36 run the command and branch on its output, which is not
\* read again: the result is kept without it.
runAndLogCommand ==
    \/ Log("L25", "L31")
    \/ /\ pc = "L31"
       /\ callee \in DOMAIN CheckoutCommand
       /\ \E r \in CommandResult :
             /\ RecordAll(<<[Event("cmd", CheckoutCommand[callee], r.success)
                             EXCEPT !.arg = branchName]>>)
             /\ cmdResult' = [r EXCEPT !.output = <<>>]
             /\ Jump(IF Trim(r.output) # <<>> THEN "L38" ELSE "L41")
       /\ UNCHANGED <<others, stage, callee, pmLocal, packageJson, branchName, logFailed>>
    \/ Log("L38", "L41")
    \/ Branch("L41", IF ~cmdResult.success /\ cmdResult.error # "" THEN "L43"
                     ELSE IF callee = "checkoutBranch" THEN "L654" ELSE "L668")
    \/ Log("L43", IF callee = "checkoutBranch" THEN "L654" ELSE "L668")

checkoutBranch ==
    /\ pc = "L654"
    /\ IF ~cmdResult.success THEN Throw(Err("Failed to checkout Git branch"))
       ELSE Goto("L108")
    /\ UNCHANGED <<others, history, logFailed>>

checkoutNewBranch ==
    \/ /\ pc = "L668"
       /\ IF ~cmdResult.success THEN Throw(Err("Failed to create Git branch"))
          ELSE Goto("L671")
       /\ UNCHANGED <<others, history, logFailed>>
    \/ Log("L671", IF Truthy(config.preDeterminedBranchName) THEN "L108" ELSE "L680")

createFallbackBranch ==
    \/ LogCall("L678", "checkoutNewBranch")
    \/ Log("L680", "L108")

----------------------------------------------------------------------------
Init ==
    /\ config \in Configs
    /\ pc = "L92"
    /\ thrown = NoError
    /\ stage = "beforeSandboxCreation"
    /\ callee = "none"
    /\ cmdResult = NoResult
    /\ pmLocal = Null
    /\ packageJson = NoPackageJson
    /\ branchName = Undefined
    /\ sandbox = NoSandbox
    /\ packageJsonDetected = FALSE
    /\ requirementsTxtDetected = FALSE
    /\ packageManager = Null
    /\ devPort = 3000
    /\ domain = Undefined
    /\ registry = [t \in {TaskId} |-> Null]
    /\ viteConfig = "original"
    /\ trace = <<>>
    /\ polls = <<>>
    /\ createCalls = 0
    /\ depFailed = FALSE
    /\ depSucceeded = FALSE
    /\ logFailed = FALSE
    /\ settled = "pending"
    /\ result = [success |-> FALSE]
    /\ NoRunCommand
    /\ labelRun = <<>>
    /\ NoDocker

Next ==
    \/ run
    \/ throwCancelled
    \/ validateEnvironment
    \/ createSandboxInstance
    \/ handleSandboxCreationError
    \/ cloneRepository
    \/ detectProjectFiles
    \/ installDependenciesIfRequested
    \/ installNodeDependencies
    \/ ensureGlobalTool
    \/ installPythonDependencies
    \/ ensurePipAvailable
    \/ maybeStartDevServer
    \/ readPackageJson
    \/ buildDevServerCommand
    \/ configureViteForSandbox
    \/ startDetachedDevServer
    \/ logProjectReadiness
    \/ setGitAuthor
    \/ ensureGitRepository
    \/ prepareBranch
    \/ handlePredeterminedBranch
    \/ ensureBranchFromRemote
    \/ runAndLogCommand
    \/ checkoutBranch
    \/ checkoutNewBranch
    \/ createFallbackBranch
    \/ createSandbox

Spec == Init /\ [][Next]_vars

----------------------------------------------------------------------------
\* Properties of createSandbox

Returned == pc = "done"

\* onCancellationCheck has returned true at some poll of this run.
CancelRequested == \E i \in DOMAIN polls : polls[i].ev = "poll" /\ polls[i].ok

ReturnedSuccess ==
    /\ Returned
    /\ settled = "resolved"
    /\ DOMAIN result = {"success", "sandbox", "domain", "branchName"}
    /\ result.success

ReturnedCancelled == Returned /\ settled = "resolved" /\ result = CancelledResult

ReturnedError ==
    /\ Returned
    /\ settled = "resolved"
    /\ DOMAIN result = {"success", "error"}
    /\ ~result.success
    /\ result.error # ""

Rejected == Returned /\ settled = "rejected"

\* The i-th event of the history is a sandbox command named w.
IsCmd(i, w) == trace[i].ev = "cmd" /\ trace[i].what = w

Issued(w) == \E i \in DOMAIN trace : IsCmd(i, w)

Succeeded(w) == \E i \in DOMAIN trace : IsCmd(i, w) /\ trace[i].ok

Failed(w) == \E i \in DOMAIN trace : IsCmd(i, w) /\ ~trace[i].ok

\* A true answer of onCancellationCheck is the last event of the history.
NothingAfterTruePoll ==
    \A i \in DOMAIN trace :
       (trace[i].ev = "poll" /\ trace[i].ok) => i = Len(trace)

\* C1: once onCancellationCheck has returned true at a poll, the workflow
\* issues no further sandbox command and no Sandbox.create call, and
\* createSandbox returns {success: false, cancelled: true}.
C1_CancellationShortCircuit ==
    /\ NothingAfterTruePoll
    /\ (Returned /\ CancelRequested) => ReturnedCancelled

\* C2: whatever the commands, the callbacks and the logger do, createSandbox
\* resolves, and with one of the three result shapes.
C2_ResolvesWithOneOfThreeShapes ==
    Returned => (ReturnedSuccess \/ ReturnedCancelled \/ ReturnedError)

\* The commands whose failure the workflow treats as fatal.
FatalCommands ==
    {"mkdir -p", "git clone", "git init", "echo > README.md", "git checkout -b main",
     "git add README.md", "git commit", "git checkout", "git checkout -b",
     "git fetch origin", "git branch --track"}

\* The i-th event of the history is a failed Sandbox.create or fatal command.
FatalAt(i) ==
    /\ ~trace[i].ok
    /\ \/ trace[i].ev = "create"
       \/ trace[i].ev = "cmd" /\ trace[i].what \in FatalCommands

\* Environment validation has run and has failed.
ValidationFailed ==
    /\ ~validateEnvironmentVariables(config).valid
    /\ thrown \in {Err("Missing API key"), Err("Invalid sandbox configuration")}

\* C3: a failed environment validation, Sandbox.create, mkdir, clone,
\* git-initialization step or final checkout is followed by no command,
\* createSandbox then returns {success: false, error}, and Sandbox.create is
\* called at most once in a run.
C3_FatalFailuresAbort ==
    /\ createCalls <= 1
    /\ \A i \in DOMAIN trace : FatalAt(i) => i = Len(trace)
    /\ ValidationFailed => (createCalls = 0 /\ \A i \in DOMAIN trace : trace[i].ev # "cmd")
    /\ (Returned /\ (ValidationFailed \/ \E i \in DOMAIN trace : FatalAt(i)))
          => ReturnedError

\* Every dependency-installation command of the run has failed, and nothing
\* else has gone wrong: no cancellation was requested, no logger call and no
\* callback has failed, the environment is valid, and no Sandbox.create,
\* fatal command or dev-server launch has failed.
OnlyDependenciesFailed ==
    /\ depFailed /\ ~depSucceeded
    /\ ~CancelRequested
    /\ ~logFailed
    /\ thrown \notin CallbackRejections
    /\ validateEnvironmentVariables(config).valid
    /\ \A i \in DOMAIN trace : ~FatalAt(i) /\ (trace[i].ev = "detached" => trace[i].ok)

\* C4: when every dependency-installation command fails and nothing else
\* goes wrong, the workflow is not aborted, and createSandbox returns
\* success: true with a prepared branch.
C4_DependencyFailureIsNotFatal ==
    OnlyDependenciesFailed =>
       /\ pc \notin {"L690", "L696"}
       /\ Returned => (ReturnedSuccess /\ result.branchName # Undefined)

C4_Witness == Returned /\ OnlyDependenciesFailed /\ ReturnedSuccess

\* The dev-server launch of this run was rejected.
DevServerLaunchFailed ==
    \E i \in DOMAIN trace : trace[i].ev = "detached" /\ ~trace[i].ok

\* C5: a dev-server launch that fails to spawn or exits nonzero within the
\* grace window does not abort the workflow: control does not reach the
\* catch of createSandbox, and the result is not {success: false, error}.
C5_DevServerFailureDoesNotAbort ==
    DevServerLaunchFailed => (pc \notin {"L690", "L696"} /\ ~ReturnedError)

\* C6: once Sandbox.create has resolved, the registry maps config.taskId to
\* the sandbox before any command is issued in it and before createSandbox
\* returns.
C6_RegisteredImmediately ==
    (sandbox # NoSandbox /\ (Returned \/ \E i \in DOMAIN trace : trace[i].ev = "cmd"))
       => registry[config.taskId] = sandbox.sandboxId

\* C7: a rejected TaskLogger call neither aborts the workflow nor becomes
\* its result: the rejection is never the exception the catch of
\* createSandbox receives, nor what createSandbox settles with.
C7_LoggingIsFireAndForget ==
    logFailed =>
       /\ thrown \notin LoggerRejections
       /\ ~Rejected
       /\ ReturnedError => result.error # "log write failed"

\* C8: createSandbox returns cancelled: true only when onCancellationCheck
\* returned true, that answer being the last thing that happened in the
\* run; the cancelled result has no error field; and a run in which the
\* predicate never returned true does not return cancelled.
C8_CancelledOnlyWhenRequested ==
    /\ (Returned /\ settled = "resolved" /\ "cancelled" \in DOMAIN result) =>
          /\ DOMAIN result = {"success", "cancelled"}
          /\ polls # <<>>
          /\ polls[Len(polls)] = Event("poll", polls[Len(polls)].what, TRUE)
          /\ trace[Len(trace)] = polls[Len(polls)]
          /\ thrown = SandboxCancelledError(polls[Len(polls)].what)
    /\ (Returned /\ ~CancelRequested) => ~ReturnedCancelled

\* A run cancelled after a dependency-installation command has failed.
C8_Witness == ReturnedCancelled /\ depFailed

\* The first poll of the run is the first checkpoint, and it answered true.
CancelledAtFirstCheckpoint ==
    /\ polls # <<>>
    /\ polls[1] = Event("poll", "beforeSandboxCreation", TRUE)

\* C9: when onCancellationCheck returns true at the first checkpoint,
\* Sandbox.create and registerSandbox are never called: there is no sandbox
\* and no registry entry for the task.
C9_NothingCreatedWhenCancelledFirst ==
    CancelledAtFirstCheckpoint =>
       /\ createCalls = 0
       /\ sandbox = NoSandbox
       /\ registry[config.taskId] = Null
       /\ \A i \in DOMAIN trace : trace[i].ev \notin {"create", "register", "cmd"}

C9_Witness == Returned /\ CancelledAtFirstCheckpoint

\* The checkouts that end branch preparation.
IsCheckout(i) ==
    trace[i].ev = "cmd" /\ trace[i].what \in {"git checkout", "git checkout -b"}

\* The remote check succeeded and printed more than whitespace.
RemoteHasBranch ==
    \E i \in DOMAIN trace :
       /\ IsCmd(i, "git ls-remote --heads origin") /\ trace[i].ok
       /\ trace[i + 1] = Event("output", "git ls-remote --heads origin", TRUE)

FetchCommands == {"git fetch origin branch", "git fetch origin", "git branch --track"}

\* C10: with a predetermined branch name B, a successful local check is
\* followed by a plain checkout of B and by no ls-remote or fetch; failing
\* that, a remote check that succeeds with output is followed by a fetch of
\* B and then a plain checkout of B; failing that too, B is created with
\* checkout -b.  A run that returns success ends with a successful checkout
\* of the branch it returns, which is B when B is given.
C10_BranchResolutionPrecedence ==
    /\ Truthy(config.preDeterminedBranchName) =>
          LET B == config.preDeterminedBranchName
          IN /\ \A i \in DOMAIN trace : IsCheckout(i) => trace[i].arg = B
             /\ (\E i \in DOMAIN trace : IsCheckout(i)) => Issued("git show-ref --verify")
             /\ Issued("git ls-remote --heads origin") => Failed("git show-ref --verify")
             /\ Succeeded("git show-ref --verify") =>
                   /\ ~Issued("git ls-remote --heads origin")
                   /\ \A w \in FetchCommands : ~Issued(w)
                   /\ \A i \in DOMAIN trace : IsCheckout(i) => trace[i].what = "git checkout"
             /\ RemoteHasBranch =>
                   /\ \A i \in DOMAIN trace : IsCheckout(i) =>
                         /\ trace[i].what = "git checkout"
                         /\ \E j \in 1..(i - 1) :
                               /\ trace[j].ok
                               /\ \/ IsCmd(j, "git fetch origin branch")
                                  \/ IsCmd(j, "git branch --track")
             /\ (Issued("git ls-remote --heads origin") /\ ~RemoteHasBranch) =>
                   /\ \A w \in FetchCommands : ~Issued(w)
                   /\ \A i \in DOMAIN trace : IsCheckout(i) => trace[i].what = "git checkout -b"
             /\ ReturnedSuccess => result.branchName = B
    /\ ReturnedSuccess =>
          /\ trace # <<>>
          /\ IsCheckout(Len(trace))
          /\ trace[Len(trace)].ok
          /\ trace[Len(trace)].arg = result.branchName

\* A successful run that found B on the remote only, and had to track it
\* after the direct fetch failed.
C10_Witness ==
    /\ ReturnedSuccess
    /\ Truthy(config.preDeterminedBranchName)
    /\ RemoteHasBranch
    /\ Failed("git fetch origin branch")
    /\ Succeeded("git branch --track")

\* The install commands of installDependencies, one per package manager.
InstallCommands == {InstallCommand[m] : m \in DOMAIN InstallCommand}

\* C11: when the global install of pnpm (or yarn) fails, the local package
\* manager becomes npm before anything is installed, and every
\* dependency-install command of the run is npm install.
C11_FallbackToNpm ==
    \A tool \in DOMAIN GlobalInstallCommand :
       Failed(GlobalInstallCommand[tool]) =>
          /\ pc \in {"L265", "L267", "L268", "L269", "L271"} => pmLocal = "npm"
          /\ packageManager # tool
          /\ \A i \in DOMAIN trace :
                (trace[i].ev = "cmd" /\ trace[i].what \in InstallCommands)
                   => trace[i].what = "npm install"

\* pnpm-lock.yaml was found, the global install of pnpm failed, and the
\* dependencies were installed.
C11_Witness ==
    /\ Succeeded("test -f pnpm-lock.yaml")
    /\ Failed("npm install -g pnpm")
    /\ Issued("npm install")

\* The dependency installs the run has made so far, in order.
Installs == SelectSeq(trace, LAMBDA e : e.ev = "cmd" /\ e.what \in InstallCommands)

\* C31: a run installs the Node dependencies at most twice; a second install
\* is made only after a first one that failed with a manager other than npm,
\* and it is npm install; a failed npm install is not followed by another.
C31_InstallAtMostTwice ==
    /\ Len(Installs) <= 2
    /\ Len(Installs) = 2 =>
          /\ ~Installs[1].ok
          /\ Installs[1].what # "npm install"
          /\ Installs[2].what = "npm install"

\* pnpm install failed and npm install was run in its place.
C31_Witness ==
    /\ Len(Installs) = 2
    /\ Installs[1].what = "pnpm install"
    /\ ~Installs[1].ok
    /\ Installs[2].what = "npm install"

\* C33: starting the dev server of a Vite project leaves vite.config.js as
\* it was after the clone.
C33_ViteConfigUntouched == viteConfig = "original"

\* The commands of package-manager detection, global tool install,
\* dependency install and pip.
DependencyStageCommands ==
    DepCommands \cup {"test -f pnpm-lock.yaml", "test -f yarn.lock",
                      "which pnpm", "which yarn"}

\* Nothing has gone wrong in the run: no cancellation was requested, no
\* logger call and no callback has failed, the environment is valid, and no
\* Sandbox.create, fatal command or dev-server launch has failed.
NothingFatal ==
    /\ ~CancelRequested
    /\ ~logFailed
    /\ thrown \notin CallbackRejections
    /\ validateEnvironmentVariables(config).valid
    /\ \A i \in DOMAIN trace : ~FatalAt(i) /\ (trace[i].ev = "detached" => trace[i].ok)

\* C12: with installDependencies: false the run issues no package-manager
\* detection, global install, dependency install or pip command, and starts
\* no dev server; when there is no predetermined branch name and nothing
\* else fails, createSandbox returns success: true with a generated
\* agent/<timestamp>-<id> branch, made by one checkout -b and no other
\* checkout.
C12_NoInstallWhenDisabled ==
    config.installDependencies = "false" =>
       /\ \A i \in DOMAIN trace :
             /\ trace[i].ev = "cmd" => trace[i].what \notin DependencyStageCommands
             /\ trace[i].ev # "detached"
       /\ ~depFailed /\ ~depSucceeded
       /\ packageManager = Null
       /\ ~Truthy(config.preDeterminedBranchName) =>
             /\ (Returned /\ NothingFatal) => ReturnedSuccess
             /\ ReturnedSuccess =>
                   /\ result.branchName \in FallbackBranchNames
                   /\ Cardinality({i \in DOMAIN trace : IsCheckout(i)}) = 1
                   /\ trace[Len(trace)] =
                         [Event("cmd", "git checkout -b", TRUE)
                            EXCEPT !.arg = result.branchName]

\* A successful run for a project with package.json and installDependencies:
\* false.
C12_Witness ==
    /\ ReturnedSuccess
    /\ config.installDependencies = "false"
    /\ ~Truthy(config.preDeterminedBranchName)
    /\ packageJsonDetected

\* The detached dev-server command has been issued.
DevServerLaunched == \E i \in DOMAIN trace : trace[i].ev = "detached"

\* C13: the detached dev-server command is issued only for a project with
\* package.json whose dependency installation was requested and executed,
\* and only after package.json was read, parsed and found to have a dev
\* script.
C13_DevServerOnlyWhenInstalledWithDevScript ==
    /\ (pc = "L502" \/ DevServerLaunched) =>
          /\ packageJsonDetected
          /\ config.installDependencies = "true"
          /\ packageManager # Null
          /\ Succeeded("cat package.json")
    /\ pc \in {"L502", "L384", "L387", "L389"} =>
          (packageJson.parsed /\ packageJson.dev)

\* The dev server has just been launched, and the launch resolved.
C13_Witness ==
    /\ pc = "L384"
    /\ trace[Len(trace)] = Event("detached", "dev server", TRUE)

\* C34: the two stages agree on the installDependencies option: when the
\* dev-server stage of a project with package.json has ended, it has gone
\* past the option and read package.json exactly when the
\* dependency-installation stage ran its commands.
C34_StagesAgreeOnOption ==
    (pc = "L102" /\ packageJsonDetected) =>
       (Issued("cat package.json") <=> (depSucceeded \/ depFailed))

PolledStages == [i \in DOMAIN polls |-> polls[i].what]

\* C30: a run with a cancellation predicate that is never cancelled and
\* returns success has called the predicate exactly four times: before
\* sandbox creation, after sandbox creation, after the dependency
\* installation stage and before git configuration.
C30_ExactlyFourPolls ==
    (ReturnedSuccess /\ config.onCancellationCheck) =>
        PolledStages = <<"beforeSandboxCreation", "afterSandboxCreation",
                         "afterDependencyInstallation", "beforeGitConfiguration">>

----------------------------------------------------------------------------
\* A runCommand with a working directory, for every bounded argument list

workflow == <<config, pc, thrown, locals, fields, registry, viteConfig, history,
              logFailed, settled, result>>

WorkflowIdle ==
    /\ config = [taskId |-> TaskId, onCancellationCheck |-> FALSE, onProgress |-> FALSE,
                 installDependencies |-> Undefined, preDeterminedBranchName |-> Undefined,
                 env |-> "valid"]
    /\ pc = "idle"
    /\ thrown = NoError
    /\ stage = "beforeSandboxCreation"
    /\ callee = "none"
    /\ cmdResult = NoResult
    /\ pmLocal = Null
    /\ packageJson = NoPackageJson
    /\ branchName = Undefined
    /\ sandbox = NoSandbox
    /\ packageJsonDetected = FALSE
    /\ requirementsTxtDetected = FALSE
    /\ packageManager = Null
    /\ devPort = 3000
    /\ domain = Undefined
    /\ registry = [t \in {TaskId} |-> Null]
    /\ viteConfig = "original"
    /\ trace = <<>>
    /\ polls = <<>>
    /\ createCalls = 0
    /\ depFailed = FALSE
    /\ depSucceeded = FALSE
    /\ logFailed = FALSE
    /\ settled = "pending"
    /\ result = [success |-> FALSE]

QuoteInit ==
    /\ WorkflowIdle
    /\ options \in [caller : {"runCommand", "runAndLogCommand"}, args : ArgLists,
                    sudo : BOOLEAN]
    /\ options.caller = "runAndLogCommand" => ~options.sudo
    /\ shellCommand = <<>>
    /\ argv = <<>>
    /\ qpc = "L349"
    /\ NoDocker
    /\ labelRun = <<>>

QuoteNext ==
    \/ appendCwdCommand /\ UNCHANGED <<workflow, docker, labelRun>>
    \/ shExec /\ UNCHANGED <<workflow, docker, labelRun>>

QuoteSpec == QuoteInit /\ [][QuoteNext]_vars

\* What the target command received: the words after the command name (and
\* after sudo) of the command that follows the cd.
Received ==
    LET target == argv[2]
    IN SubSeq(target, IF options.sudo THEN 3 ELSE 2, Len(target))

\* C20: for every non-empty argument made of single quotes, spaces, & and $
\* (and ordinary characters), the shell line built for a command with a
\* working directory runs exactly two commands, the cd and the target, and
\* the target receives the argument unchanged, as one word.
C20_QuotingRoundTrip ==
    (qpc = "ran" /\ \A i \in DOMAIN options.args : options.args[i] # <<>>) =>
       /\ Len(argv) = 2
       /\ argv[1] = << <<"cd">>, <<PROJECT_DIR>> >>
       /\ Received = options.args

\* An argument made of a single quote and a dollar sign has gone round.
C20_Witness ==
    /\ qpc = "ran"
    /\ options.args = << <<"'", "$">> >>
    /\ Received = options.args

\* C40: with a working directory, the target command receives as many
\* arguments as the request lists, the same ones in the same order, for every
\* list, those that hold the empty string included.
C40_ArgumentCountPreserved ==
    qpc = "ran" =>
       /\ Len(Received) = Len(options.args)
       /\ \A i \in DOMAIN options.args : Received[i] = options.args[i]

----------------------------------------------------------------------------
\* The DockerSandbox class under two callers

\* The process starts with an empty map and no image promise; the runtime
\* may still hold a container of an earlier process.
DockerInit ==
    /\ WorkflowIdle
    /\ NoRunCommand
    /\ labelRun = <<>>
    /\ instances = <<>>
    /\ imagePromise = Null
    /\ imageStarts = 0
    /\ handles = <<>>
    /\ containers \in {{}, {ExistingId}}
    /\ calls = [c \in Callers |-> NoCall]
    /\ started = 0
    /\ child = NoChild
    /\ stopDone = {}

DockerNext ==
    \/ \E c \in Callers : create(c) /\ UNCHANGED <<workflow, quoting, labelRun>>
    \/ \E c \in Callers : ensureImage(c) /\ UNCHANGED <<workflow, quoting, labelRun>>
    \/ imageTask /\ UNCHANGED <<workflow, quoting, labelRun>>
    \/ \E c \in Callers : awaitImage(c) /\ UNCHANGED <<workflow, quoting, labelRun>>
    \/ \E c \in Callers : initializeContainer(c) /\ UNCHANGED <<workflow, quoting, labelRun>>
    \/ \E c \in Callers : initializeSource(c) /\ UNCHANGED <<workflow, quoting, labelRun>>
    \/ \E c \in Callers : get(c) /\ UNCHANGED <<workflow, quoting, labelRun>>
    \/ \E c \in Callers : inspectContainer(c) /\ UNCHANGED <<workflow, quoting, labelRun>>
    \/ \E c \in Callers : reconnect(c) /\ UNCHANGED <<workflow, quoting, labelRun>>
    \/ \E c \in Callers : stop(c) /\ UNCHANGED <<workflow, quoting, labelRun>>
    \/ \E c \in Callers : idleTimeout(c) /\ UNCHANGED <<workflow, quoting, labelRun>>
    \/ \E c \in Callers : removeContainer(c) /\ UNCHANGED <<workflow, quoting, labelRun>>
    \/ \E c \in Callers : removeVolumes(c) /\ UNCHANGED <<workflow, quoting, labelRun>>

DockerSpec == DockerInit /\ [][DockerNext]_vars

----------------------------------------------------------------------------
\* A detached runCommand on a sandbox that create has returned

\* The state after one create (the object is in the map, its container
\* runs, and its idle timer is armed when config.timeout is positive), or the
\* state after new DockerSandbox(config) alone: an object never initialised.
DetachedInit ==
    /\ WorkflowIdle
    /\ NoRunCommand
    /\ labelRun = <<>>
    /\ child = NoChild
    /\ stopDone = {}
    /\ \/ /\ \E timeout \in BOOLEAN :
                /\ handles = << [NewHandle(NewSandboxId(1), timeout) EXCEPT
                                    !.containerId = "cid", !.timeoutHandle = timeout,
                                    !.held = TRUE, !.runs = 1] >>
                /\ calls = [c \in Callers |->
                              IF c = "p"
                              THEN [NoCall EXCEPT !.op = "create", !.timeout = timeout,
                                                  !.h = 1, !.outcome = "returned"]
                              ELSE NoCall]
          /\ instances = MapSet(<<>>, NewSandboxId(1), 1)
          /\ imagePromise = "fulfilled"
          /\ imageStarts = 1
          /\ containers = {NewSandboxId(1)}
          /\ started = 1
       \/ /\ handles = << [NewHandle(NewSandboxId(1), FALSE) EXCEPT !.held = TRUE] >>
          /\ calls = [c \in Callers |-> NoCall]
          /\ instances = <<>>
          /\ imagePromise = Null
          /\ imageStarts = 0
          /\ containers = {}
          /\ started = 0

DetachedNext ==
    \/ runCommandDetached /\ UNCHANGED <<workflow, quoting, labelRun>>
    \/ runForegroundCommand /\ UNCHANGED <<workflow, quoting, labelRun>>
    \/ graceTimer /\ UNCHANGED <<workflow, quoting, labelRun>>
    \/ onData /\ UNCHANGED <<workflow, quoting, labelRun>>
    \/ onError /\ UNCHANGED <<workflow, quoting, labelRun>>
    \/ \E code \in ExitCodes : onClose(code) /\ UNCHANGED <<workflow, quoting, labelRun>>
    \/ \E c \in Callers : stop(c) /\ UNCHANGED <<workflow, quoting, labelRun>>
    \/ \E c \in Callers : idleTimeout(c) /\ UNCHANGED <<workflow, quoting, labelRun>>
    \/ \E c \in Callers : removeContainer(c) /\ UNCHANGED <<workflow, quoting, labelRun>>
    \/ \E c \in Callers : removeVolumes(c) /\ UNCHANGED <<workflow, quoting, labelRun>>

DetachedSpec == DetachedInit /\ [][DetachedNext]_vars

----------------------------------------------------------------------------
\* Claims about DockerSandbox

Stops == {c \in Callers : calls[c].op \in {"stop", "timeout"}}
Gets == {c \in Callers : calls[c].op = "get"}
Creates == {c \in Callers : calls[c].op = "create"}
Done(c) == calls[c].pc = "done"

\* C14: a call of stop() never rejects, whatever the container and volume
\* removals do, and from its first statement on the status of its object is
\* 'stopped'; this holds for a second stop() of the same object as well,
\* after the first or while the first is still running.
C14_IdempotentStop ==
    \A c \in Stops :
        /\ calls[c].outcome \in {"none", "returned"}
        /\ handles[calls[c].h].status = "stopped"

\* Two calls of stop() on one object have both returned although the
\* container could not be removed.
C14_Witness ==
    /\ Stops = Callers
    /\ calls["p"].h = calls["q"].h
    /\ \A c \in Callers : calls[c].outcome = "returned"
    /\ calls["p"].id \in containers

\* C15: a get that begins after a stop() for the same sandboxId has
\* completed ends with 'Sandbox not found'.
C15_NotFoundAfterStop ==
    \A c \in Gets :
        (calls[c].late /\ Done(c)) => calls[c].outcome = "Sandbox not found"

\* C16: two calls of get for one sandboxId that have returned objects not
\* yet stopped have returned the same object.
C16_OneObjectPerId ==
    \A c, d \in Gets :
        (/\ calls[c].id = calls[d].id
         /\ calls[c].outcome = "returned" /\ calls[d].outcome = "returned"
         /\ handles[calls[c].h].status # "stopped"
         /\ handles[calls[d].h].status # "stopped")
        => calls[c].h = calls[d].h

\* C26: the status of every DockerSandbox object is 'running' or 'stopped'.
C26_StatusRunningOrStopped ==
    \A h \in DOMAIN handles : handles[h].status \in {"running", "stopped"}

\* C27: no step takes an object whose status is 'stopped' to another status,
\* and no step gives a container id back to a stopped object that has lost
\* it: not a further stop, not the idle timer, not a get for the same id.
C27_NoWayBack ==
    [][\A h \in DOMAIN handles :
          handles[h].status = "stopped" =>
             /\ handles'[h].status = "stopped"
             /\ handles[h].containerId = Null => handles'[h].containerId = Null]_vars

\* A stopped object has lost its container id, the container is still
\* there, and a later get has made a second, running object for the id.
C27_Witness ==
    \E h, k \in DOMAIN handles :
        /\ h < k
        /\ handles[h].sandboxId = handles[k].sandboxId
        /\ handles[h].status = "stopped" /\ handles[h].containerId = Null
        /\ handles[k].status = "running" /\ handles[k].containerId # Null
        /\ \E c \in Gets : calls[c].h = k /\ calls[c].late

\* C22: in the step in which a create returns, one docker run has been
\* issued for the returned object, the object has a sandbox id, a container
\* id and status 'running', and the map holds it under its id, so that a get
\* returns it from the map.
C22_CreateReturnsTrackedHandle ==
    [][\A c \in Creates :
          (~Done(c) /\ calls'[c].outcome = "returned") =>
             LET h == calls'[c].h
             IN /\ handles'[h].runs = 1
                /\ handles'[h].sandboxId # <<>>
                /\ handles'[h].containerId # Null
                /\ handles'[h].status = "running"
                /\ handles'[h].sandboxId \in DOMAIN instances'
                /\ instances'[handles'[h].sandboxId] = h]_vars

\* A create has returned an object and a get of the other caller has
\* returned the same object without a docker inspect.
C22_Witness ==
    \E c \in Creates, d \in Gets :
        /\ calls[c].outcome = "returned" /\ calls[d].outcome = "returned"
        /\ calls[d].id = handles[calls[c].h].sandboxId
        /\ calls[d].h = calls[c].h
        /\ ~calls[d].found

\* C23: in the step in which a create rejects, the map has no entry for the
\* id of the object the create had made, if it had made one, and the idle
\* timer of that object is not armed.
C23_FailedCreateLeavesNothing ==
    [][\A c \in Creates :
          (~Done(c) /\ calls'[c].pc = "done" /\ calls'[c].outcome # "returned") =>
             \/ calls'[c].h = 0
             \/ LET h == calls'[c].h
                IN /\ handles'[h].sandboxId \notin DOMAIN instances'
                   /\ ~handles'[h].timeoutHandle]_vars

\* A create with a timeout has rejected after its container had started.
C23_Witness ==
    \E c \in Creates :
        /\ calls[c].outcome = "Failed to create Docker sandbox"
        /\ calls[c].h # 0
        /\ handles[calls[c].h].containerId # Null
        /\ handles[calls[c].h].timeout
        /\ handles[calls[c].h].sandboxId \in containers
        /\ handles[calls[c].h].sandboxId \notin DOMAIN instances

\* C35: every object in the map DockerSandbox.instances has a container id
\* and status 'running', whatever create, get, stop and the idle timer are
\* doing; so a get never returns an object whose stop() has begun.
C35_MapHoldsLiveHandles ==
    \A id \in DOMAIN instances :
        /\ handles[instances[id]].containerId # Null
        /\ handles[instances[id]].status = "running"

\* C17: the body of the image promise begins at most once, and a create
\* that waits for the image waits for a promise that exists.
C17_OneImageBuild ==
    /\ imageStarts <= 1
    /\ \A c \in Creates : calls[c].pc \in {"L162", "L206"} => imagePromise # Null

\* Two calls of create wait for the one image promise while it is pending.
C17_Witness ==
    /\ Creates = Callers
    /\ \A c \in Callers : calls[c].pc \in {"L162", "L206"}
    /\ imagePromise = "pending"
    /\ imageStarts = 1

\* C36: the body of the image promise begins at most once; once the promise
\* has settled it is never replaced and the body never begins again; and a
\* create that ends while the promise is rejected ends with the failure of
\* the build, having constructed no object.
C36_ImageOutcomeShared ==
    [][/\ imageStarts' <= 1
       /\ imagePromise \in {"fulfilled", "rejected"} =>
             (imagePromise' = imagePromise /\ imageStarts' = imageStarts)
       /\ \A c \in Creates :
             (~Done(c) /\ calls'[c].pc = "done" /\ imagePromise = "rejected") =>
                (calls'[c].outcome = "docker build failed" /\ calls'[c].h = 0)]_vars

\* A create has failed with the build, and the create of the other caller
\* found the promise and waits on it, rejected; the body has begun once.
C36_Witness ==
    /\ imagePromise = "rejected"
    /\ imageStarts = 1
    /\ \E c, d \in Creates :
          /\ calls[c].outcome = "docker build failed"
          /\ calls[d].pc = "L162"

\* The objects that get made from a docker inspect: held by a caller, and
\* never the subject of a docker run.
Reconstructed(h) == handles[h].held /\ handles[h].runs = 0

C39_NoOutputAfterSettle ==
    child.detached =>
       /\ child.late = {}
       /\ child.promise \in {"resolved", "rejected"} => child.piped = {}

\* The call resolved by the timer with both sinks supplied; the child went
\* on running and wrote to a stream that had reached its sink before.
C39_Witness ==
    /\ child.detached
    /\ child.promise = "resolved"
    /\ child.runningAtTimer
    /\ "stdout" \in child.written
    /\ "stdout" \in child.unread
    /\ child.late = {}

\* C18: when the child of a detached runCommand has emitted 'error' or
\* closed with a nonzero code while the 500 ms timer was still pending, the
\* call has not resolved with a success result.
C18_EarlyFailureNeverSucceeds ==
    child.early => ~(child.promise = "resolved" /\ child.value.success)

\* C24: a runCommand on an object that had no container id, whether never
\* initialised or stopped, has rejected with 'Sandbox not initialized' and
\* has spawned nothing and armed no timer; one on an object with a container
\* id has not failed that way.
C24_NotInitialized ==
    child.promise # "none" =>
       IF child.hadContainer
       THEN child.error # "Sandbox not initialized"
       ELSE /\ child.promise = "rejected"
            /\ child.error = "Sandbox not initialized"
            /\ child.proc = "none"
            /\ child.timer = "none"

\* A runCommand has rejected on an object whose stop() had completed.
C24_Witness ==
    /\ child.promise = "rejected"
    /\ child.error = "Sandbox not initialized"
    /\ child.proc = "none"
    /\ handles[child.owner].status = "stopped"
    /\ \E c \in Stops : calls[c].h = child.owner /\ calls[c].outcome = "returned"

\* C25: once the idle timer of a sandbox has fired, the object has status
\* 'stopped', its container is gone when the timer's stop has returned, and a
\* command issued on the object after the timer fired has failed without a
\* process being spawned.
C25_TimerStopsSandbox ==
    \A c \in Callers :
       calls[c].op = "timeout" =>
          /\ handles[calls[c].h].status = "stopped"
          /\ Done(c) => calls[c].id \notin containers
          /\ (child.owner = calls[c].h /\ child.statusAtCall = "stopped") =>
                (child.promise = "rejected" /\ child.proc = "none")

\* C28: the result a runCommand has resolved with has success exactly when
\* its exit code is 0, for a child closed with a number or with null.
C28_SuccessIffExitCodeZero ==
    child.promise = "resolved" =>
       (child.value.success <=> child.value.exitCode = 0)

\* A foreground child ended by a signal: exit code 1 and no success.
C28_Witness ==
    /\ ~child.detached
    /\ child.proc = "closed"
    /\ child.code = NullCode
    /\ child.promise = "resolved"
    /\ child.value = [exitCode |-> 1, success |-> FALSE]

Foreground == child.promise # "none" /\ ~child.detached /\ child.hadContainer

\* C29: a foreground runCommand on an object with a container never
\* rejects; once its child has closed it is resolved, with the child's code
\* and no success for a nonzero code, and with a nonzero code and the error
\* text in stderr after a failed spawn.
C29_ForegroundNeverRejects ==
    Foreground =>
       /\ child.promise # "rejected"
       /\ child.proc = "errored" => child.stderr
       /\ child.proc = "closed" =>
             /\ child.promise = "resolved"
             /\ IsFailure(child.code) =>
                   child.value = [exitCode |-> child.code.n, success |-> FALSE]
             /\ child.stderr => child.value.exitCode # 0 /\ ~child.value.success

\* C19: when the 500 ms timer fired while the child was running, the call is
\* resolved with exit code 0 and success, and stays so whatever the child
\* does later; resolve and reject are called at most once between them.
C19_StillRunningResolves ==
    /\ (child.timer = "fired" /\ child.runningAtTimer) =>
          /\ child.promise = "resolved"
          /\ child.value = [exitCode |-> 0, success |-> TRUE]
    /\ child.settleCalls <= 1

\* The child closed with a nonzero code after the timer had fired, its
\* listener still attached, and the call is resolved with success.
C19_Witness ==
    /\ child.timer = "fired"
    /\ child.runningAtTimer
    /\ child.proc = "closed"
    /\ IsFailure(child.code)
    /\ child.listeners
    /\ child.promise = "resolved"
    /\ child.value = [exitCode |-> 0, success |-> TRUE]

----------------------------------------------------------------------------
\* The configuration label: written by initialize, read back by get

\* Text is a sequence of one-character strings. The printable ASCII
\* characters in code order, from code 32: what Buffer.from(text) and
\* toString('utf8') map between characters and bytes.
Ascii == <<" ", "!", "\"", "#", "$", "%", "&", "'", "(", ")", "*", "+", ",",
           "-", ".", "/", "0", "1", "2", "3", "4", "5", "6", "7", "8", "9",
           ":", ";", "<", "=", ">", "?", "@", "A", "B", "C", "D", "E", "F",
           "G", "H", "I", "J", "K", "L", "M", "N", "O", "P", "Q", "R", "S",
           "T", "U", "V", "W", "X", "Y", "Z", "[", "\\", "]", "^", "_", "U+0060",
           "a", "b", "c", "d", "e", "f", "g", "h", "i", "j", "k", "l", "m",
           "n", "o", "p", "q", "r", "s", "t", "u", "v", "w", "x", "y", "z",
           "{", "|", "}", "~">>

\* Buffer.from(text).toString('base64'): three bytes become four characters
\* of A-Z a-z 0-9 + /, the last group padded with =.
toBase64(text) ==
    LET byte(i) == IF i <= Len(text)
                   THEN 31 + CHOOSE j \in DOMAIN Ascii : Ascii[j] = text[i]
                   ELSE 0
        digit(d) == Ascii[(IF d < 26 THEN 65 + d ELSE IF d < 52 THEN 71 + d
                           ELSE IF d < 62 THEN d - 4 ELSE IF d = 62 THEN 43
                           ELSE 47) - 31]
        group(g) == byte(3 * g - 2) * 65536 + byte(3 * g - 1) * 256 + byte(3 * g)
    IN [i \in 1..(4 * ((Len(text) + 2) \div 3)) |->
          LET g == (i + 3) \div 4
              k == i - 4 * (g - 1)
          IN IF k = 1 THEN digit(group(g) \div 262144)
             ELSE IF k = 2 THEN digit((group(g) \div 4096) % 64)
             ELSE IF k = 3
                  THEN IF 3 * g - 1 <= Len(text) THEN digit((group(g) \div 64) % 64)
                       ELSE "="
             ELSE IF 3 * g <= Len(text) THEN digit(group(g) % 64) ELSE "="]

\* Buffer.from(label, 'base64').toString('utf8'): the characters up to the
\* first = that belong to the alphabet, four of them giving three bytes and
\* a last group of two or three giving one or two; a byte outside printable
\* ASCII comes out as the replacement character.
fromBase64(text) ==
    LET code(ch) == 31 + CHOOSE i \in DOMAIN Ascii : Ascii[i] = ch
        IsDigit(ch) == /\ \E i \in DOMAIN Ascii : Ascii[i] = ch
                       /\ \/ code(ch) \in 65..90
                          \/ code(ch) \in 97..122
                          \/ code(ch) \in 48..57
                          \/ code(ch) \in {43, 47}
        value(ch) == IF code(ch) >= 97 THEN code(ch) - 71
                     ELSE IF code(ch) >= 65 THEN code(ch) - 65
                     ELSE IF code(ch) >= 48 THEN code(ch) + 4
                     ELSE IF code(ch) = 43 THEN 62 ELSE 63
        upto == IF \E i \in DOMAIN text : text[i] = "="
                THEN (CHOOSE i \in DOMAIN text :
                         /\ text[i] = "="
                         /\ \A j \in 1..(i - 1) : text[j] # "=") - 1
                ELSE Len(text)
        digits == SelectSeq(SubSeq(text, 1, upto), IsDigit)
        digit(i) == IF i <= Len(digits) THEN value(digits[i]) ELSE 0
        group(g) == digit(4 * g - 3) * 262144 + digit(4 * g - 2) * 4096
                    + digit(4 * g - 1) * 64 + digit(4 * g)
        last == Len(digits) % 4
        char(b) == IF b \in 32..126 THEN Ascii[b - 31] ELSE "U+FFFD"
    IN [i \in 1..(3 * (Len(digits) \div 4)
                  + (IF last = 2 THEN 1 ELSE IF last = 3 THEN 2 ELSE 0)) |->
          LET g == (i + 2) \div 3
              k == i - 3 * (g - 1)
          IN char(IF k = 1 THEN group(g) \div 65536
                  ELSE IF k = 2 THEN (group(g) \div 256) % 256
                  ELSE group(g) % 256)]

\* JSON.stringify({ ports, workspaceVolume, cacheVolume }) for an array of
\* non-negative integers and two strings: the keys in the order written, no
\* white space, " and \ escaped inside a string.
JSONstringify(value) ==
    LET RECURSIVE number(_)
        number(n) == IF n < 10 THEN <<Ascii[n + 17]>>
                     ELSE number(n \div 10) \o <<Ascii[(n % 10) + 17]>>
        RECURSIVE array(_)
        array(a) == IF a = <<>> THEN <<>>
                    ELSE number(a[1])
                         \o (IF Len(a) > 1 THEN <<",">> ELSE <<>>)
                         \o array(Tail(a))
        RECURSIVE escaped(_)
        escaped(t) == IF t = <<>> THEN <<>>
                      ELSE (IF t[1] \in {"\"", "\\"} THEN <<"\\", t[1]>> ELSE <<t[1]>>)
                           \o escaped(Tail(t))
        string(t) == <<"\"">> \o escaped(t) \o <<"\"">>
    IN <<"{">> \o string(<<"p", "o", "r", "t", "s">>) \o <<":", "[">>
       \o array(value.ports) \o <<"]", ",">>
       \o string(<<"w", "o", "r", "k", "s", "p", "a", "c", "e",
                   "V", "o", "l", "u", "m", "e">>)
       \o <<":">> \o string(value.workspaceVolume) \o <<",">>
       \o string(<<"c", "a", "c", "h", "e", "V", "o", "l", "u", "m", "e">>)
       \o <<":">> \o string(value.cacheVolume) \o <<"}">>

\* JSON.parse(text) for objects, arrays, strings, non-negative integers,
\* true, false and null: the value, tagged with its type (an object is the sequence of its
\* members), or a SyntaxError.
JSONparse(text) ==
    LET Fail == [ok |-> FALSE, v |-> [t |-> "none"], rest |-> <<>>]
        Ok(v, rest) == [ok |-> TRUE, v |-> v, rest |-> rest]
        Digit(ch) == \E d \in 0..9 : Ascii[d + 17] = ch
        RECURSIVE number(_, _)
        number(s, n) ==
            IF s # <<>> /\ Digit(s[1])
            THEN number(Tail(s), 10 * n + (CHOOSE d \in 0..9 : Ascii[d + 17] = s[1]))
            ELSE Ok([t |-> "number", v |-> n], s)
        RECURSIVE string(_, _)
        string(s, acc) ==
            IF s = <<>> THEN Fail
            ELSE IF s[1] = "\"" THEN Ok([t |-> "string", v |-> acc], Tail(s))
            ELSE IF s[1] = "\\"
                 THEN IF Len(s) >= 2 /\ s[2] \in {"\"", "\\", "/"}
                      THEN string(SubSeq(s, 3, Len(s)), Append(acc, s[2]))
                      ELSE Fail
            ELSE string(Tail(s), Append(acc, s[1]))
        RECURSIVE value(_), elements(_, _), members(_, _)
        value(s) ==
            IF s = <<>> THEN Fail
            ELSE IF s[1] = " " THEN value(Tail(s))
            ELSE IF s[1] = "\"" THEN string(Tail(s), <<>>)
            ELSE IF s[1] = "0"
                 THEN IF Len(s) >= 2 /\ Digit(s[2]) THEN Fail
                      ELSE Ok([t |-> "number", v |-> 0], Tail(s))
            ELSE IF Digit(s[1]) THEN number(s, 0)
            ELSE IF Len(s) >= 4 /\ SubSeq(s, 1, 4) = <<"n", "u", "l", "l">>
                 THEN Ok([t |-> "null"], SubSeq(s, 5, Len(s)))
            ELSE IF Len(s) >= 4 /\ SubSeq(s, 1, 4) = <<"t", "r", "u", "e">>
                 THEN Ok([t |-> "boolean"], SubSeq(s, 5, Len(s)))
            ELSE IF Len(s) >= 5 /\ SubSeq(s, 1, 5) = <<"f", "a", "l", "s", "e">>
                 THEN Ok([t |-> "boolean"], SubSeq(s, 6, Len(s)))
            ELSE IF s[1] = "["
                 THEN IF Len(s) >= 2 /\ s[2] = "]"
                      THEN Ok([t |-> "array", v |-> <<>>], SubSeq(s, 3, Len(s)))
                      ELSE elements(Tail(s), <<>>)
            ELSE IF s[1] = "{"
                 THEN IF Len(s) >= 2 /\ s[2] = "}"
                      THEN Ok([t |-> "object", v |-> <<>>], SubSeq(s, 3, Len(s)))
                      ELSE members(Tail(s), <<>>)
            ELSE Fail
        elements(s, acc) ==
            LET e == value(s)
            IN IF ~e.ok \/ e.rest = <<>> THEN Fail
               ELSE IF e.rest[1] = "," THEN elements(Tail(e.rest), Append(acc, e.v))
               ELSE IF e.rest[1] = "]"
                    THEN Ok([t |-> "array", v |-> Append(acc, e.v)], Tail(e.rest))
               ELSE Fail
        members(s, acc) ==
            IF s = <<>> \/ s[1] # "\"" THEN Fail
            ELSE LET k == string(Tail(s), <<>>)
                 IN IF ~k.ok \/ k.rest = <<>> \/ k.rest[1] # ":" THEN Fail
                    ELSE LET e == value(Tail(k.rest))
                             m == Append(acc, [key |-> k.v.v, value |-> e.v])
                         IN IF ~e.ok \/ e.rest = <<>> THEN Fail
                            ELSE IF e.rest[1] = "," THEN members(Tail(e.rest), m)
                            ELSE IF e.rest[1] = "}"
                                 THEN Ok([t |-> "object", v |-> m], Tail(e.rest))
                            ELSE Fail
        parsed == value(text)
    IN IF parsed.ok /\ \A i \in DOMAIN parsed.rest : parsed.rest[i] = " "
       THEN parsed.v
       ELSE [t |-> "SyntaxError"]

\* new DockerSandbox(config): the ports of the configuration, or 3000 and
\* 5173 when it has none, and the two volume names made from the id.
newDockerSandbox(cfg) ==
    [sandboxId |-> cfg.id,
     ports |-> IF Len(cfg.ports) > 0 THEN cfg.ports ELSE DefaultPorts,
     workspaceVolume |-> cfg.id \o <<"-", "w", "o", "r", "k", "s", "p", "a", "c", "e">>,
     cacheVolume |-> cfg.id \o <<"-", "c", "a", "c", "h", "e">>]

\* create(config): the object is constructed, initialize encodes its ports
\* and volume names into the label of docker run, and the object is put in
\* the map; or docker fails and create rejects.
createLabelled ==
    /\ labelRun.pc = "start"
    /\ LET sb == newDockerSandbox([id |-> labelRun.id, ports |-> labelRun.config.ports])
           encodedConfig == toBase64(JSONstringify(
                                [ports |-> sb.ports,
                                 workspaceVolume |-> sb.workspaceVolume,
                                 cacheVolume |-> sb.cacheVolume]))
       IN \E ok \in BOOLEAN :
             labelRun' = IF ok
                         THEN [labelRun EXCEPT !.pc = "created", !.created = sb,
                                               !.label = encodedConfig,
                                               !.tracked = TRUE]
                         ELSE [labelRun EXCEPT !.pc = "failed"]

\* The process that created the sandbox ends and another one starts: the
\* map is empty again, the container and its label remain.
restart ==
    /\ labelRun.pc = "created"
    /\ labelRun' = [labelRun EXCEPT !.pc = "restarted", !.tracked = FALSE]

\* A variant of get that takes no notice of the label.
getLabelledDefaults ==
    /\ labelRun.pc \in {"created", "restarted"}
    /\ labelRun' = [labelRun EXCEPT
                       !.pc = "got",
                       !.got = IF labelRun.tracked THEN labelRun.created
                               ELSE newDockerSandbox([id |-> labelRun.id, ports |-> <<>>])]

\* get({ sandboxId }): the object of the map, or one made from what docker
\* inspect reports: the label decoded and parsed, with the defaults when
\* there is no label or it does not parse. What the parsed value lacks is
\* undefined, and reading parsedConfig.ports of null is a TypeError that
\* rejects the call.
getLabelled ==
    /\ labelRun.pc \in {"created", "restarted"}
    /\ \E json \in {IF labelRun.label # <<>>
                     THEN JSONparse(fromBase64(labelRun.label))
                     ELSE [t |-> "SyntaxError"]} :
          LET id == labelRun.id
              defaults == newDockerSandbox([id |-> id, ports |-> <<>>])
              Has(key) == /\ json.t = "object"
                          /\ \E i \in DOMAIN json.v : json.v[i].key = key
              Field(key) == LET i == CHOOSE i \in DOMAIN json.v :
                                        /\ json.v[i].key = key
                                        /\ \A j \in DOMAIN json.v :
                                              json.v[j].key = key => j <= i
                            IN json.v[i].value
              Text(key, default) ==
                  IF json.t = "SyntaxError" THEN default
                  ELSE IF Has(key) /\ Field(key).t = "string" THEN Field(key).v
                  ELSE <<"undefined">>
              ports == <<"p", "o", "r", "t", "s">>
              parsedPorts ==
                  IF json.t = "SyntaxError" THEN defaults.ports
                  ELSE IF Has(ports) /\ Field(ports).t = "array"
                       THEN [i \in DOMAIN Field(ports).v |-> Field(ports).v[i].v]
                  ELSE <<>>
              sandbox_ == newDockerSandbox([id |-> id, ports |-> parsedPorts])
          IN labelRun' =
                IF ~labelRun.tracked /\ json.t = "null"
                THEN [labelRun EXCEPT !.pc = "rejected"]
                ELSE
                [labelRun EXCEPT
                   !.pc = "got",
                   !.got = IF labelRun.tracked THEN labelRun.created
                           ELSE [sandbox_ EXCEPT
                                   !.workspaceVolume =
                                       Text(<<"w", "o", "r", "k", "s", "p", "a", "c", "e",
                                              "V", "o", "l", "u", "m", "e">>,
                                            defaults.workspaceVolume),
                                   !.cacheVolume =
                                       Text(<<"c", "a", "c", "h", "e",
                                              "V", "o", "l", "u", "m", "e">>,
                                            defaults.cacheVolume)]]

----------------------------------------------------------------------------
\* One sandbox created with a port list and looked up again

MaxPorts == 2

\* create is called with a list of ports, or with none, and draws the id
\* `sandbox-` followed by hexadecimal digits; or the process finds a container
\* it did not create, whose configuration label is absent, is not base64 of
\* JSON, is cut short, or holds JSON without the ports or the volume names.
LabelInit ==
    /\ WorkflowIdle
    /\ NoRunCommand
    /\ NoDocker
    /\ LET NoHandle == [sandboxId |-> <<>>, ports |-> <<>>,
                        workspaceVolume |-> <<>>, cacheVolume |-> <<>>]
           prefix == <<"s", "a", "n", "d", "b", "o", "x", "-">>
           Ids == {prefix \o <<"0", "a">>, prefix \o <<"f", "7">>}
           whole(id) == JSONstringify(newDockerSandbox([id |-> id, ports |-> <<8080>>]))
           Found(id) ==
               {<<>>, <<"t", "r", "u", "e">>, toBase64(<<"{", "}">>),
                toBase64(<<"n", "u", "l", "l">>),
                toBase64(<<"{", "\"", "p", "o", "r", "t", "s", "\"", ":", "[", "]", "}">>),
                toBase64(<<"{", "\"", "p", "o", "r", "t", "s", "\"", ":",
                           "[", "8", "0", "8", "0", "]", "}">>),
                toBase64(SubSeq(whole(id), 1, Len(whole(id)) - 1)),
                toBase64(SubSeq(whole(id), 1, 16) \o <<"}">>)}
       IN \/ \E n \in 0..MaxPorts :
                \E ports \in [1..n -> {3000, 5173, 8080}], id \in Ids :
                   labelRun = [pc |-> "start", origin |-> "create",
                               config |-> [ports |-> ports], id |-> id,
                               created |-> NoHandle, label |-> <<>>,
                               tracked |-> FALSE, got |-> NoHandle]
          \/ \E id \in Ids :
                \E label \in Found(id) :
                   labelRun = [pc |-> "restarted", origin |-> "found",
                               config |-> [ports |-> <<>>], id |-> id,
                               created |-> NoHandle, label |-> label,
                               tracked |-> FALSE, got |-> NoHandle]

LabelNext ==
    \/ createLabelled /\ UNCHANGED <<workflow, quoting, docker>>
    \/ restart /\ UNCHANGED <<workflow, quoting, docker>>
    \/ getLabelled /\ UNCHANGED <<workflow, quoting, docker>>

LabelSpec == LabelInit /\ [][LabelNext]_vars

\* C21: for every non-empty port list, the object that get makes from the
\* container's label, after the object of create is no longer in the map,
\* has the ports and the two volume names of the created object, and its
\* domain() is the address of the first port of the list.
C21_ReconnectReconstructsConfig ==
    (labelRun.pc = "got" /\ ~labelRun.tracked /\ labelRun.config.ports # <<>>) =>
       /\ labelRun.got.ports = labelRun.config.ports
       /\ labelRun.got.ports = labelRun.created.ports
       /\ labelRun.got.workspaceVolume = labelRun.created.workspaceVolume
       /\ labelRun.got.cacheVolume = labelRun.created.cacheVolume
       /\ domainOf(labelRun.got, 0) = UrlOfPort[labelRun.config.ports[1]]

\* A sandbox created with ports 8080 and 3000 has been reconstructed after a
\* restart, and its domain() is that of port 8080.
C21_Witness ==
    /\ labelRun.pc = "got"
    /\ ~labelRun.tracked
    /\ labelRun.config.ports = <<8080, 3000>>
    /\ labelRun.got = labelRun.created
    /\ domainOf(labelRun.got, 0) = "http://localhost:8080"

\* C32: get for a container whose label is absent, does not decode to JSON, or
\* decodes to a value without the ports or a volume name returns an object
\* with ports 3000 and 5173 and the volumes named after the id; and no object
\* that get has made has an undefined volume name or an empty port list.
C32_DefaultsForBadLabel ==
    /\ (labelRun.pc = "got" /\ ~labelRun.tracked) =>
          /\ labelRun.got.ports # <<>>
          /\ labelRun.got.workspaceVolume # <<"undefined">>
          /\ labelRun.got.cacheVolume # <<"undefined">>
    /\ labelRun.origin = "found" =>
          /\ labelRun.pc # "rejected"
          /\ labelRun.pc = "got" =>
                labelRun.got = newDockerSandbox([id |-> labelRun.id, ports |-> <<>>])

====
